---- MODULE Spec2Model ----
(***************************************************************************)
(* State-machine model of the sattebaaz trading engine: the Position       *)
(* Manager ledger, the Risk Manager with its kill switch, the evaluation   *)
(* loop and risk watchdog of main.rs, the strategy orchestrator, and the   *)
(* entry / exit controller of the live trader.                             *)
(*                                                                         *)
(* Money is counted in quarter dollars (Dollar = 4 units), sizes in whole  *)
(* shares.  rust_decimal values are modelled as exact rationals <<n, d>>   *)
(* with d > 0 in lowest terms.                                             *)
(***************************************************************************)
EXTENDS Integers, Sequences, FiniteSets, TLC

\* ------------------------------------------------------------------------
\* Bounds of the model
\* ------------------------------------------------------------------------
MaxFills == 2
MaxHeldPositions == 2
MaxHeldStraddles == 1
MaxEntries == 2
LiveCapital == 500
MaxSellAttempts == 4
MaxClock == 450
MaxWire == 1
MaxResting == 2
MaxLapses == 8
MaxDiscoveryClock == 700
MaxOpened == 1
MaxSellPosts == 2
MaxTracked == 2
MaxTrackerClock == 600
MaxBootOrders == 2
MaxExecutions == 3
MaxFillChannel == 2
MaxEvaluations == 3
MaxRefClock == 600
MaxApproved == 4
MaxChainBuys == 2
MaxResolverClock == 900
TestCapital == 100
BookDepth == 200

\* ------------------------------------------------------------------------
\* Units and configuration
\* ------------------------------------------------------------------------
Dollar == 4
StartingCapital == 8
max_exposure_pct == <<1, 2>>
max_daily_loss_pct == <<1, 10>>
loss_streak_threshold == 5
loss_streak_size_mult == <<1, 2>>

Markets == {"m1", "m2"}
Sides == {"Yes", "No"}
OrderSides == {"Buy", "Sell"}
FillPrices == {1, 3}
FillSizes == {1, 2}
FillFees == {0, 1}
MatchedSizes == {0, 4, 1500}
SignedSpends == {100}
SignedShares == {4, 2000}
RemainingSamples == {150, 100, 75, 45}
HoldSamples == {0, 120}
PctSamples == {-25, 0, 5}
OrderStatuses == {"MATCHED", "LIVE", "CANCELLED", "ERR"}
FiveMinElapsed == {2, 60, 250, 285, 300}
FifteenMinElapsed == {285, 880}

\* ------------------------------------------------------------------------
\* Exact rational arithmetic (rust_decimal::Decimal)
\* ------------------------------------------------------------------------
Abs(x) == IF x < 0 THEN -x ELSE x

RECURSIVE GCD(_, _)
GCD(a, b) == IF b = 0 THEN a ELSE GCD(b, a % b)

Rat(n, d) ==
    LET s == IF d < 0 THEN -1 ELSE 1
        g == GCD(Abs(n), Abs(d))
    IN  <<(s * n) \div g, (s * d) \div g>>

RInt(i) == <<i, 1>>
\* sums, products and comparisons split off whole parts and cancel common
\* factors before they multiply
RAdd(a, b) ==
    LET g == GCD(a[2], b[2])
        whole == (a[1] \div a[2]) + (b[1] \div b[2])
        frac == Rat((a[1] % a[2]) * (b[2] \div g) + (b[1] % b[2]) * (a[2] \div g),
                    (a[2] \div g) * b[2])
    IN  <<whole * frac[2] + frac[1], frac[2]>>
RSub(a, b) == RAdd(a, <<-b[1], b[2]>>)
RMul(a, b) ==
    LET g1 == GCD(Abs(a[1]), b[2])
        g2 == GCD(Abs(b[1]), a[2])
        h1 == IF g1 = 0 THEN 1 ELSE g1
        h2 == IF g2 = 0 THEN 1 ELSE g2
    IN  Rat((a[1] \div h1) * (b[1] \div h2), (a[2] \div h2) * (b[2] \div h1))
RDiv(a, b) == RMul(a, IF b[1] < 0 THEN <<-b[2], -b[1]>> ELSE <<b[2], b[1]>>)
RNeg(a) == <<-a[1], a[2]>>
RLt(a, b) ==
    LET g == GCD(a[2], b[2])
        wa == a[1] \div a[2]
        wb == b[1] \div b[2]
    IN  \/ wa < wb
        \/ wa = wb /\ (a[1] % a[2]) * (b[2] \div g) < (b[1] % b[2]) * (a[2] \div g)
RLe(a, b) == ~RLt(b, a)

RECURSIVE RSum(_)
RSum(s) == IF s = <<>> THEN RInt(0) ELSE RAdd(Head(s), RSum(Tail(s)))

\* ------------------------------------------------------------------------
\* State
\* ------------------------------------------------------------------------
VARIABLES
    resolver,               \* main.rs resolution tracker: its clock, resolved_slugs and the resolutions it has recorded
    chain,                  \* main.rs balance sync loop: the collateral at the exchange, the executed buys not yet recorded, the balance fetched
    gateway,                \* main.rs: the approved orders the evaluation loop has submitted, resting at the gateway or filled
    refprice,               \* main.rs / models/market.rs: one market's reference price in the cache, in the evaluations and at resolution
    fillpath,               \* main.rs / feeds/user_ws.rs: executions at the gateway, the user stream, the fill channel and its consumer
    boot,                   \* main.rs / bin/live_trade.rs: the start-up sequence of one process, from the environment to the first orders
    scanner,                \* signals/arb_scanner.rs: the last ArbScanner::scan call, its arguments and what it returned
    tracker,                \* execution/fill_tracker.rs: active_orders and fills, with the orders as the exchange holds them
    ctl,                    \* bin/live_trade.rs: the exit controller's tick on one position, the capital, the sell orders at the exchange
    portfolio,              \* PositionManager.portfolio (behind the RwLock)
    killed,                 \* RiskManager.killed
    size_reduction_active,  \* RiskManager.size_reduction_active
    size_multiplier,        \* RiskManager.size_multiplier
    fills,                  \* number of fills recorded so far (bounded)
    eval,                   \* the evaluation loop of main.rs: position and locals
    sent,                   \* the request the last step sent to the CLOB gateway
    buy,                    \* bin/live_trade.rs: a try_market_buy call, the capital and positions it works on
    live,                   \* bin/live_trade.rs: the tick loop's clock reads and one open position
    orch,                   \* the last StrategyOrchestrator::evaluate call: inputs and returned intents
    bookfeed,               \* feeds/polymarket.rs: one token's book on the exchange, on the wire and in the cache
    pm,                     \* PositionManager.portfolio's RwLock: the guard, the callers inside and waiting, what a reader saw
    discovery,              \* feeds/polymarket.rs: the market cache of the discovery loop, its books and subscriptions
    streams,                \* feeds/binance.rs, feeds/polymarket.rs, feeds/user_ws.rs: the reconnect loops
    shutdown,               \* main.rs / bin/live_trade.rs: the shutdown sequence, the background tasks, the resting orders
    throttle                \* main.rs evaluation loop: the clock, last_eval and the evaluations started

\* the state of the trading engine (main.rs); the live trader (bin/live_trade.rs)
\* and the orchestrator call
coreVars == <<portfolio, killed, size_reduction_active, size_multiplier, fills, eval, sent>>
\* the loops and feeds modelled on their own
others == <<throttle, bookfeed, pm, shutdown, streams, discovery, ctl, tracker, scanner, boot, fillpath, refprice, gateway, chain, resolver>>
elsewhere == <<buy, live, orch, others>>
vars == <<coreVars, elsewhere>>

\* ------------------------------------------------------------------------
\* models/position.rs
\* ------------------------------------------------------------------------
cost_basis(pos) == RMul(RInt(pos.size), pos.avg_entry_price)

imbalance(s) == Abs(s.yes_size - s.no_size)

excess_side(s) ==
    IF s.yes_size > s.no_size THEN "Yes"
    ELSE IF s.no_size > s.yes_size THEN "No"
    ELSE "None"

StraddlePosition(market_id, yes_size, no_size, yes_avg_price, no_avg_price) ==
    [market_id |-> market_id, yes_size |-> yes_size, no_size |-> no_size,
     yes_avg_price |-> yes_avg_price, no_avg_price |-> no_avg_price,
     combined_cost |-> yes_size * yes_avg_price + no_size * no_avg_price]

Portfolio(capital) ==
    [capital |-> capital, starting_capital |-> capital,
     positions |-> <<>>, straddles |-> <<>>,
     daily_pnl |-> RInt(0), total_pnl |-> RInt(0),
     consecutive_losses |-> 0, total_trades |-> 0, winning_trades |-> 0]

total_exposure(p) ==
    RAdd(RSum([i \in 1..Len(p.positions) |-> cost_basis(p.positions[i])]),
         RSum([i \in 1..Len(p.straddles) |-> RInt(p.straddles[i].combined_cost)]))

\* exposure measured against the capital the session started with
exposure_over_starting_capital(p) == RDiv(total_exposure(p), RInt(p.starting_capital))

exposure_ratio(p) ==
    IF p.capital = 0 THEN RInt(0)
    ELSE RDiv(total_exposure(p), RInt(p.capital))

\* ------------------------------------------------------------------------
\* risk/position_manager.rs
\* ------------------------------------------------------------------------
\* index of the first position of this token in this market, 0 if none
find_position(p, token_id, market_id) ==
    LET hits == {i \in 1..Len(p.positions) :
                    /\ p.positions[i].token_id = token_id
                    /\ p.positions[i].market_id = market_id}
    IN  IF hits = {} THEN 0 ELSE CHOOSE i \in hits : \A j \in hits : i <= j

record_fill(p, fill, market_id, side) ==
    LET i == find_position(p, fill.token_id, market_id)
    IN  IF fill.side = "Buy" THEN
            LET cost == fill.price * fill.size + fill.fee
                positions1 ==
                    IF i # 0 THEN
                        LET pos == p.positions[i]
                            total_cost == RAdd(RMul(pos.avg_entry_price, RInt(pos.size)),
                                               RInt(fill.price * fill.size))
                            size1 == pos.size + fill.size
                            avg1 == IF size1 > 0 THEN RDiv(total_cost, RInt(size1))
                                    ELSE pos.avg_entry_price
                        IN  [p.positions EXCEPT ![i] =
                                [pos EXCEPT !.size = size1, !.avg_entry_price = avg1]]
                    ELSE
                        Append(p.positions,
                               [market_id |-> market_id, token_id |-> fill.token_id,
                                side |-> side, size |-> fill.size,
                                avg_entry_price |-> RInt(fill.price)])
            IN  [p EXCEPT !.positions = positions1, !.capital = p.capital - cost]
        ELSE
            IF i # 0 THEN
                LET pos == p.positions[i]
                    sell_proceeds == fill.price * fill.size - fill.fee
                    basis == RMul(pos.avg_entry_price, RInt(fill.size))
                    pnl == RSub(RInt(sell_proceeds), basis)
                IN  [p EXCEPT
                        !.positions[i].size = pos.size - fill.size,
                        !.capital = p.capital + sell_proceeds,
                        !.daily_pnl = RAdd(p.daily_pnl, pnl),
                        !.total_pnl = RAdd(p.total_pnl, pnl),
                        !.total_trades = p.total_trades + 1,
                        !.winning_trades =
                            IF RLt(RInt(0), pnl) THEN p.winning_trades + 1
                            ELSE p.winning_trades,
                        !.consecutive_losses =
                            IF RLt(RInt(0), pnl) THEN 0
                            ELSE p.consecutive_losses + 1]
            ELSE p

\* what one position contributes to a resolution (payout: one dollar a share)
position_resolution(pos, winning_side) ==
    IF pos.side = winning_side
    THEN LET payout == pos.size * Dollar
         IN  [pnl |-> RSub(RInt(payout), cost_basis(pos)), capital_delta |-> payout,
              wins |-> 1, losses |-> 0]
    ELSE [pnl |-> RNeg(cost_basis(pos)), capital_delta |-> 0, wins |-> 0, losses |-> 1]

\* what one straddle contributes to a resolution
straddle_resolution(s, winning_side) ==
    LET matched == IF s.yes_size < s.no_size THEN s.yes_size ELSE s.no_size
        straddle_payout == matched * Dollar
        straddle_cost == matched * (s.yes_avg_price + s.no_avg_price)
        straddle_profit == straddle_payout - straddle_cost
        excess == imbalance(s)
        excess_pnl == IF excess_side(s) = winning_side THEN excess * Dollar ELSE 0
        excess_cost == IF s.yes_size > s.no_size THEN excess * s.yes_avg_price
                       ELSE excess * s.no_avg_price
    IN  [pnl |-> RInt(straddle_profit + excess_pnl - excess_cost),
         capital_delta |-> straddle_payout + excess_pnl, wins |-> 1, losses |-> 0]

RECURSIVE SumField(_, _)
SumField(s, f) == IF s = <<>> THEN 0 ELSE Head(s)[f] + SumField(Tail(s), f)

\* a purge that removes only the first holding of the market
drop_first_of_market(s, market_id) ==
    LET hits == {i \in 1..Len(s) : s[i].market_id = market_id}
    IN  IF hits = {} THEN s
        ELSE LET k == CHOOSE i \in hits : \A j \in hits : i <= j
             IN  SubSeq(s, 1, k - 1) \o SubSeq(s, k + 1, Len(s))

keep_other_markets(s, market_id) == SelectSeq(s, LAMBDA x : x.market_id # market_id)

record_resolution(p, market_id, winning_side) ==
    LET mine == SelectSeq(p.positions, LAMBDA x : x.market_id = market_id)
        smine == SelectSeq(p.straddles, LAMBDA x : x.market_id = market_id)
        res == [i \in 1..Len(mine) |-> position_resolution(mine[i], winning_side)]
              \o [i \in 1..Len(smine) |-> straddle_resolution(smine[i], winning_side)]
        pnl == RSum([i \in 1..Len(res) |-> res[i].pnl])
        capital_delta == SumField(res, "capital_delta")
        wins == SumField(res, "wins")
        losses == SumField(res, "losses")
        trades == Len(res)
    IN  [p EXCEPT
            !.positions = keep_other_markets(p.positions, market_id),
            !.straddles = keep_other_markets(p.straddles, market_id),
            !.capital = p.capital + capital_delta,
            !.total_trades = p.total_trades + trades,
            !.winning_trades = p.winning_trades + wins,
            !.consecutive_losses =
                IF losses > 0 THEN p.consecutive_losses + losses
                ELSE IF wins > 0 THEN 0 ELSE p.consecutive_losses,
            !.daily_pnl = RAdd(p.daily_pnl, pnl),
            !.total_pnl = RAdd(p.total_pnl, pnl)]

\* one cent, the drift sync_capital_from_balance tolerates
Cent == <<Dollar, 100>>

sync_capital_from_balance(p, on_chain_balance) ==
    IF on_chain_balance <= 0 THEN p
    ELSE
        LET expected == RAdd(RInt(on_chain_balance), total_exposure(p))
            diff == RSub(expected, RInt(p.capital))
            drift == IF diff[1] < 0 THEN RNeg(diff) ELSE diff
        IN  IF RLt(Cent, drift) THEN [p EXCEPT !.capital = on_chain_balance] ELSE p

available_capital(p) == p.capital

net_yes_inventory(p, market_id) ==
    LET held == SelectSeq(p.positions, LAMBDA x : x.market_id = market_id)
        pairs == SelectSeq(p.straddles, LAMBDA x : x.market_id = market_id)
    IN  SumField([i \in 1..Len(held) |->
                    [net |-> IF held[i].side = "Yes" THEN held[i].size
                             ELSE -held[i].size]], "net")
        + SumField([i \in 1..Len(pairs) |->
                    [net |-> pairs[i].yes_size - pairs[i].no_size]], "net")

position_count(p, market_id) ==
    Len(SelectSeq(p.positions, LAMBDA x : x.market_id = market_id))
    + Len(SelectSeq(p.straddles, LAMBDA x : x.market_id = market_id))

\* ------------------------------------------------------------------------
\* risk/risk_manager.rs
\* ------------------------------------------------------------------------
order_cost(order) == order.price * order.size

exposure_exceeded(new_exposure, max_exposure) == RLt(max_exposure, new_exposure)

daily_loss_breached(p) ==
    RLt(p.daily_pnl, RNeg(RMul(RInt(p.starting_capital), max_daily_loss_pct)))

\* a balance check that lets every order through
balance_unchecked(required, capital) == FALSE

insufficient_balance(required, capital) == required > capital

\* a check_order that takes the exposure limit from the current capital alone
check_order_on_capital(p, kill_flag, order) ==
    IF kill_flag THEN "Err_KillSwitch"
    ELSE
        LET new_exposure == RAdd(total_exposure(p), RInt(order_cost(order)))
            max_exposure == RMul(RInt(p.capital), max_exposure_pct)
        IN  IF exposure_exceeded(new_exposure, max_exposure) THEN "Err_Exposure"
            ELSE IF daily_loss_breached(p) THEN "Err_DailyLoss"
            ELSE IF insufficient_balance(order_cost(order), p.capital) THEN "Err_Balance"
            ELSE "Ok"

check_order(p, kill_flag, order) ==
    IF kill_flag THEN "Err_KillSwitch"
    ELSE
        LET current_exposure == total_exposure(p)
            new_exposure == RAdd(current_exposure, RInt(order_cost(order)))
            base_capital == IF p.starting_capital > p.capital
                            THEN p.starting_capital ELSE p.capital
            max_exposure == RMul(RInt(base_capital), max_exposure_pct)
        IN  IF exposure_exceeded(new_exposure, max_exposure) THEN "Err_Exposure"
            ELSE IF daily_loss_breached(p) THEN "Err_DailyLoss"
            ELSE IF insufficient_balance(order_cost(order), p.capital) THEN "Err_Balance"
            ELSE "Ok"

\* a periodic check that releases the kill switch once exposure is back in range
periodic_check_unlatched(p, kill_flag, reduction_active, multiplier) ==
    IF RLt(max_exposure_pct, exposure_ratio(p)) THEN
        [action |-> "KillSwitch", killed |-> TRUE,
         size_reduction_active |-> reduction_active, size_multiplier |-> multiplier]
    ELSE
        [action |-> "Continue", killed |-> FALSE,
         size_reduction_active |-> reduction_active, size_multiplier |-> multiplier]

\* the RiskAction returned, and the flags as periodic_check leaves them
periodic_check(p, kill_flag, reduction_active, multiplier) ==
    IF RLt(max_exposure_pct, exposure_ratio(p)) THEN
        [action |-> "KillSwitch", killed |-> TRUE,
         size_reduction_active |-> reduction_active, size_multiplier |-> multiplier]
    ELSE IF daily_loss_breached(p) THEN
        [action |-> "Pause", killed |-> kill_flag,
         size_reduction_active |-> reduction_active, size_multiplier |-> multiplier]
    ELSE IF p.consecutive_losses >= loss_streak_threshold THEN
        [action |-> "ReduceSize", killed |-> kill_flag,
         size_reduction_active |-> TRUE, size_multiplier |-> loss_streak_size_mult]
    ELSE IF reduction_active THEN
        [action |-> "Continue", killed |-> kill_flag,
         size_reduction_active |-> FALSE, size_multiplier |-> RInt(1)]
    ELSE
        [action |-> "Continue", killed |-> kill_flag,
         size_reduction_active |-> reduction_active, size_multiplier |-> multiplier]

kill == TRUE

reset_kill == FALSE

\* ------------------------------------------------------------------------
\* bin/live_trade.rs: try_market_buy. Money in cents, shares in thousandths.
\* ------------------------------------------------------------------------
POLL_ATTEMPTS == 5

\* (x * 100.0).floor() / 100.0 on a number of shares
floor_2dec(shares) == (shares \div 10) * 10

\* what get_order may answer: an error, or a status with the matched size
PollResults ==
    {[ok |-> FALSE, status |-> "", size_matched |-> 0]}
    \cup {[ok |-> TRUE, status |-> "MATCHED", size_matched |-> n] : n \in MatchedSizes}
    \cup {[ok |-> TRUE, status |-> st, size_matched |-> 0] : st \in {"LIVE", "DELAYED", "CANCELLED"}}

\* a verification that takes any answered poll for a fill of the signed size
poll_trusting(attempt, r, actual_shares) ==
    IF r.ok
    THEN [confirmed |-> floor_2dec(actual_shares), stop |-> TRUE]
    ELSE [confirmed |-> 0, stop |-> FALSE]

\* one pass of the verification loop: the shares confirmed by this poll
\* (0: none) and whether the loop breaks
poll_once(attempt, r, actual_shares) ==
    IF ~r.ok THEN [confirmed |-> 0, stop |-> FALSE]
    ELSE IF r.status = "MATCHED" THEN
        [confirmed |-> floor_2dec(r.size_matched), stop |-> TRUE]
    ELSE IF r.status \in {"LIVE", "DELAYED"} THEN
        [confirmed |-> IF attempt = POLL_ATTEMPTS - 1 THEN floor_2dec(actual_shares) ELSE 0,
         stop |-> FALSE]
    ELSE [confirmed |-> 0, stop |-> TRUE]

\* live_trade's capital and positions, with no try_market_buy call running
BuyIdle(capital, positions) ==
    [pc |-> "idle", attempt |-> 0, polls |-> <<>>, confirmed |-> 0,
     actual_spend |-> 0, actual_shares |-> 0,
     capital |-> capital, positions |-> positions, ret |-> "none"]

\* ------------------------------------------------------------------------
\* bin/live_trade.rs: the exit controller. Times in seconds, price change in
\* percent of the entry price.
\* ------------------------------------------------------------------------
INTERVAL == 300
MAX_HOLD_SECS == 120
PRE_RESOLVE_EXIT_SECS == 90
STOP_LOSS_PCT == 20

desired_type(remaining, hold_secs, pct_change) ==
    IF remaining < 30 \/ remaining < 60 \/ hold_secs >= MAX_HOLD_SECS THEN "force"
    ELSE IF pct_change <= -STOP_LOSS_PCT THEN "sl"
    ELSE IF remaining < PRE_RESOLVE_EXIT_SECS /\ pct_change > 2 THEN "sl"
    ELSE "tp"

needs_replacement(pos, desired) ==
    \/ ~pos.sell_order_id
    \/ desired = "force" /\ pos.sell_order_type # "force"
    \/ desired = "sl" /\ pos.sell_order_type = "tp"

\* the position as try_market_buy pushes it, the take-profit sell placed or not
OpenedPosition(placed) ==
    [open |-> TRUE, sell_order_id |-> placed, sell_order_type |-> "tp",
     sell_attempts |-> IF placed THEN 1 ELSE 0]

\* the tick loop with no position open
LiveFlat ==
    [wall |-> "current", remaining |-> INTERVAL, hold_secs |-> 0,
     pos |-> [OpenedPosition(FALSE) EXCEPT !.open = FALSE],
     placed |-> <<>>, outcome |-> "none"]

\* the tick loop right after an entry: the wall clock is in the position's
\* window; placed lists the types of the sell orders posted for it so far
LiveOpened ==
    {[wall |-> "current", remaining |-> INTERVAL, hold_secs |-> 0,
      pos |-> OpenedPosition(placed),
      placed |-> IF placed THEN <<"tp">> ELSE <<>>,
      outcome |-> "open"] : placed \in BOOLEAN}

\* ------------------------------------------------------------------------
\* models/signal.rs, models/market.rs: regimes, lifecycle phases, order
\* books. Dollars and shares as exact rationals, book prices in cents, book
\* sizes in whole shares, times in seconds.
\* ------------------------------------------------------------------------
RMin(a, b) == IF RLe(a, b) THEN a ELSE b
RMax(a, b) == IF RLe(a, b) THEN b ELSE a
RAbs(a) == <<Abs(a[1]), a[2]>>
\* f64::clamp
RClamp(x, lo, hi) == RMax(lo, RMin(x, hi))
Cents(n) == Rat(n, 100)

VolRegimes == {"Dead", "Low", "Medium", "High", "Extreme"}

mm_half_spread(r) ==
    CASE r = "Dead" -> Rat(15, 1000) [] r = "Low" -> Rat(20, 1000)
      [] r = "Medium" -> Rat(30, 1000) [] r = "High" -> Rat(50, 1000)
      [] OTHER -> RInt(0)

mm_size_multiplier(r) ==
    CASE r = "Dead" -> RInt(2) [] r = "Low" -> Rat(3, 2)
      [] r = "Medium" -> RInt(1) [] r = "High" -> Rat(3, 10)
      [] OTHER -> RInt(0)

arb_min_edge(r) ==
    CASE r = "Dead" -> Cents(5) [] r = "Low" -> Cents(3) [] OTHER -> Cents(2)

position_size_cap(r) ==
    CASE r = "Dead" -> Cents(30) [] r = "Low" -> Cents(25)
      [] r = "Medium" -> Cents(20) [] r = "High" -> Cents(15)
      [] OTHER -> Cents(10)

fill_probability_penalty(r) ==
    CASE r = "Dead" -> Cents(95) [] r = "Low" -> Cents(90)
      [] r = "Medium" -> Cents(80) [] r = "High" -> Cents(65)
      [] OTHER -> Cents(50)

\* BiasSignal
is_actionable(bias) == bias.direction # "Neutral" /\ RLt(Cents(35), bias.confidence)

\* the favored side, "None" for a neutral signal
favored_side(bias) ==
    CASE bias.direction = "Up" -> "Yes" [] bias.direction = "Down" -> "No"
      [] OTHER -> "None"

\* MomentumSignal
is_entry_signal(sig) ==
    /\ RLt(Rat(3, 1000), RAbs(sig.momentum))
    /\ RLt(Cents(2), RAbs(sig.divergence))
    /\ ~sig.exhausted
    /\ (sig.momentum[1] >= 0) = (sig.divergence[1] >= 0)

direction(sig) ==
    IF sig.momentum[1] > 0 /\ sig.divergence[1] > 0 THEN "Up"
    ELSE IF sig.momentum[1] < 0 /\ sig.divergence[1] < 0 THEN "Down"
    ELSE "Neutral"

\* Duration
seconds(duration) == IF duration = "FiveMin" THEN INTERVAL ELSE 900

\* Market, its clock read as the seconds elapsed since open_time
time_remaining_secs(market) ==
    IF market.elapsed >= seconds(market.duration) THEN 0
    ELSE seconds(market.duration) - market.elapsed

lifecycle_phase(market) ==
    LET elapsed == market.elapsed
    IN  IF time_remaining_secs(market) <= 0 THEN "Resolved"
        ELSE IF market.duration = "FiveMin" THEN
            IF elapsed < 5 THEN "AlphaWindow"
            ELSE IF elapsed < 30 THEN "EarlyArbs"
            ELSE IF elapsed < 120 THEN "PrimeZone"
            ELSE IF elapsed < 240 THEN "MaturePhase"
            ELSE IF elapsed < 270 THEN "PreResolution"
            ELSE "Lockout"
        ELSE
            IF elapsed < 15 THEN "AlphaWindow"
            ELSE IF elapsed < 90 THEN "EarlyArbs"
            ELSE IF elapsed < 600 THEN "PrimeZone"
            ELSE IF elapsed < 780 THEN "MaturePhase"
            ELSE IF elapsed < 870 THEN "PreResolution"
            ELSE "Lockout"

\* OrderBook: bids and asks are sequences of levels ascending by price
has_bid(book) == book.bids # <<>>
has_ask(book) == book.asks # <<>>
best_bid(book) == book.bids[Len(book.bids)]
best_ask(book) == book.asks[1]

\* shares offered within tolerance cents of the best ask
ask_depth_within(book, tolerance) ==
    IF ~has_ask(book) THEN 0
    ELSE SumField(SelectSeq(book.asks,
                            LAMBDA l : l.price <= best_ask(book).price + tolerance),
                  "size")

\* walks the asks for a BUY of usdc_amount dollars: the worst price (cents)
\* and the dollars on offer up to it; some is FALSE on an empty book
RECURSIVE walk_asks(_, _, _, _)
walk_asks(asks, usdc_amount, cumulative_cost, worst_price) ==
    IF asks = <<>>
    THEN [some |-> worst_price > 0, worst_price |-> worst_price,
          depth |-> cumulative_cost]
    ELSE LET cost == RAdd(cumulative_cost,
                          RMul(Cents(Head(asks).price), RInt(Head(asks).size)))
         IN  IF RLe(usdc_amount, cost)
             THEN [some |-> TRUE, worst_price |-> Head(asks).price, depth |-> cost]
             ELSE walk_asks(Tail(asks), usdc_amount, cost, Head(asks).price)

calculate_buy_market_price(book, usdc_amount) ==
    walk_asks(book.asks, usdc_amount, RInt(0), 0)

\* OrderIntent
OrderIntent(market_side, order_side, price, size, strategy_tag) ==
    [market_side |-> market_side, order_side |-> order_side, price |-> price,
     size |-> size, strategy_tag |-> strategy_tag]

\* ------------------------------------------------------------------------
\* config.rs: StrategyConfig::default, CapitalAllocation::default
\* ------------------------------------------------------------------------
straddle_enabled == TRUE
arb_enabled == TRUE
lag_exploit_enabled == TRUE
market_making_enabled == TRUE
momentum_enabled == TRUE
straddle_max_combined == Cents(97)
straddle_max_capital_pct == Cents(25)
bias_min_confidence == Cents(35)
bias_max_capital_pct == Cents(15)
config_arb_min_edge == Cents(2)
arb_min_expected_profit == Cents(10)
lag_min_edge == Cents(3)
mm_base_size_pct == Cents(10)

allocation_pct(asset, duration) ==
    CASE asset = "BTC" /\ duration = "FiveMin" -> Cents(40)
      [] asset = "BTC" /\ duration = "FifteenMin" -> Cents(20)
      [] asset = "ETH" /\ duration = "FifteenMin" -> Cents(20)
      [] asset = "SOL" /\ duration = "FifteenMin" -> Cents(10)
      [] asset = "XRP" /\ duration = "FifteenMin" -> Cents(10)
      [] OTHER -> Cents(5)

\* ------------------------------------------------------------------------
\* signals/arb_scanner.rs
\* ------------------------------------------------------------------------
NoArbSignal ==
    [some |-> FALSE, yes_ask |-> RInt(0), no_ask |-> RInt(0), combined |-> RInt(0),
     edge |-> RInt(0), executable_size |-> RInt(0), expected_profit |-> RInt(0)]

\* a scanner that stops at the edge test
scan_on_edge_alone(yes_book, no_book, vol_regime, min_profit) ==
    IF ~has_ask(yes_book) \/ ~has_ask(no_book) THEN NoArbSignal
    ELSE LET combined == RAdd(Cents(best_ask(yes_book).price), Cents(best_ask(no_book).price))
         IN  IF RLt(RSub(RInt(1), combined), arb_min_edge(vol_regime)) THEN NoArbSignal
             ELSE [NoArbSignal EXCEPT !.some = TRUE]

scan(yes_book, no_book, vol_regime, min_profit) ==
    IF ~has_ask(yes_book) \/ ~has_ask(no_book) THEN NoArbSignal
    ELSE LET yes_ask == Cents(best_ask(yes_book).price)
             no_ask == Cents(best_ask(no_book).price)
             combined == RAdd(yes_ask, no_ask)
             edge == RSub(RInt(1), combined)
             yes_depth == ask_depth_within(yes_book, 2)
             no_depth == ask_depth_within(no_book, 2)
             executable == IF yes_depth <= no_depth THEN yes_depth ELSE no_depth
             expected_fill == RMul(RInt(executable), fill_probability_penalty(vol_regime))
             expected_profit == RMul(expected_fill, edge)
         IN  IF RLt(edge, arb_min_edge(vol_regime)) THEN NoArbSignal
             ELSE IF RLt(expected_profit, min_profit) THEN NoArbSignal
             ELSE [some |-> TRUE, yes_ask |-> yes_ask, no_ask |-> no_ask,
                   combined |-> combined, edge |-> edge,
                   executable_size |-> RInt(executable),
                   expected_profit |-> expected_profit]

\* ------------------------------------------------------------------------
\* strategies/pure_arb.rs
\* ------------------------------------------------------------------------
size_cap_for_capital(capital) ==
    IF RLt(capital, RInt(50)) THEN RInt(1)
    ELSE IF RLt(capital, RInt(500)) THEN Rat(1, 2)
    ELSE IF RLt(capital, RInt(5000)) THEN Rat(1, 4)
    ELSE Rat(1, 10)

build_arb_orders(signal, capital) ==
    LET size_cap_pct == size_cap_for_capital(capital)
        max_from_capital == RDiv(RMul(capital, size_cap_pct), signal.combined)
        size == RMax(RMin(signal.executable_size, max_from_capital), RInt(0))
    IN  IF RLt(size, RInt(1)) THEN <<>>
        ELSE <<OrderIntent("Yes", "Buy", signal.yes_ask, size, "arb_yes"),
               OrderIntent("No", "Buy", signal.no_ask, size, "arb_no")>>

pure_arb_evaluate(market, yes_book, no_book, vol_regime, capital) ==
    LET signal == scan(yes_book, no_book, vol_regime, arb_min_expected_profit)
    IN  IF lifecycle_phase(market) \in {"Lockout", "Resolved"} THEN <<>>
        ELSE IF ~signal.some THEN <<>>
        ELSE IF RLt(signal.edge, config_arb_min_edge) THEN <<>>
        ELSE build_arb_orders(signal, capital)

\* ------------------------------------------------------------------------
\* strategies/straddle_bias.rs
\* ------------------------------------------------------------------------
build_straddle(arb, capital) ==
    LET max_capital == RMul(capital, straddle_max_capital_pct)
        max_affordable == RDiv(max_capital, arb.combined)
        size == RMax(RMin(arb.executable_size, max_affordable), RInt(0))
    IN  IF RLt(size, RInt(1)) THEN <<>>
        ELSE <<OrderIntent("Yes", "Buy", arb.yes_ask, size, "straddle_yes"),
               OrderIntent("No", "Buy", arb.no_ask, size, "straddle_no")>>

build_bias_amplification(yes_book, no_book, bias, capital, guaranteed_straddle_profit) ==
    LET side == favored_side(bias)
        book == IF side = "Yes" THEN yes_book ELSE no_book
        max_from_capital == RMul(capital, bias_max_capital_pct)
        max_from_straddle == IF RLt(RInt(0), guaranteed_straddle_profit)
                             THEN RMul(guaranteed_straddle_profit, RInt(3))
                             ELSE max_from_capital
        max_from_depth == RInt(ask_depth_within(book, 1))
        size == RMax(RMin(RMin(max_from_capital, max_from_straddle), max_from_depth),
                     RInt(0))
        confidence_mult == RDiv(RSub(bias.confidence, bias_min_confidence),
                                RSub(RInt(1), bias_min_confidence))
        final_size == RMul(size, RClamp(confidence_mult, Rat(3, 10), RInt(1)))
    IN  IF side = "None" THEN <<>>
        ELSE IF ~has_ask(book) THEN <<>>
        ELSE IF RLt(size, RInt(1)) THEN <<>>
        ELSE IF RLt(final_size, Rat(1, 2)) THEN <<>>
        ELSE <<OrderIntent(side, "Buy", Cents(best_ask(book).price), final_size,
                           "bias_amplify")>>

straddle_evaluate(market, yes_book, no_book, arb_signal, bias_signal, vol_regime, capital) ==
    LET phase == lifecycle_phase(market)
        straddle_orders ==
            IF arb_signal.some /\ RLt(arb_signal.combined, straddle_max_combined)
            THEN build_straddle(arb_signal, capital)
            ELSE <<>>
        amp_order ==
            IF /\ phase \in {"EarlyArbs", "PrimeZone", "MaturePhase"}
               /\ bias_signal.some
               /\ is_actionable(bias_signal)
               /\ RLt(bias_min_confidence, bias_signal.confidence)
            THEN build_bias_amplification(
                     yes_book, no_book, bias_signal, capital,
                     IF arb_signal.some
                     THEN RMul(arb_signal.edge, arb_signal.executable_size)
                     ELSE RInt(0))
            ELSE <<>>
    IN  IF phase \in {"Lockout", "Resolved"} THEN <<>>
        ELSE straddle_orders \o amp_order

\* ------------------------------------------------------------------------
\* strategies/market_maker.rs. fair_value is what the probability model
\* answers for the reference price.
\* ------------------------------------------------------------------------
should_mm(market, vol_regime, capital, yes_book) ==
    /\ time_remaining_secs(market) >= 30
    /\ vol_regime # "Extreme"
    /\ ~(vol_regime = "High" /\ RLt(capital, RInt(3)))
    /\ ~(has_bid(yes_book) /\ has_ask(yes_book)
         /\ best_ask(yes_book).price - best_bid(yes_book).price < 1)
    /\ lifecycle_phase(market) \notin {"Lockout", "Resolved"}

detect_adverse_selection(binance_1s_move_pct, order_flow_imbalance, liquidation_active) ==
    IF liquidation_active THEN "PullQuotes"
    ELSE IF RLt(Rat(2, 10000), RAbs(binance_1s_move_pct)) THEN "PullQuotes"
    ELSE IF RLt(RInt(3), RAbs(order_flow_imbalance)) THEN "WidenSpread"
    ELSE "Normal"

\* Decimal floor and ceil to a multiple of the tick size, a cent
floor_to_tick(x) ==
    LET tenths == ((x[1] % x[2]) * 10) \div x[2]
        rest == ((x[1] % x[2]) * 10) % x[2]
    IN  Rat((x[1] \div x[2]) * 100 + tenths * 10 + (rest * 10) \div x[2], 100)
ceil_to_tick(x) == RNeg(floor_to_tick(RNeg(x)))

mm_evaluate(market, yes_book, fair_value, vol_regime, capital, inventory, binance_1s_move_pct, order_flow_imbalance, liquidation_active) ==
    LET action == detect_adverse_selection(binance_1s_move_pct, order_flow_imbalance,
                                           liquidation_active)
        time_remaining == time_remaining_secs(market)
        widened == IF action = "WidenSpread"
                   THEN RMul(mm_half_spread(vol_regime), RInt(2))
                   ELSE mm_half_spread(vol_regime)
        half_spread ==
            IF time_remaining < 120
            THEN RMul(widened, RAdd(RInt(1), RMul(Rat(120 - time_remaining, 120),
                                                  Rat(1, 2))))
            ELSE widened
        max_inventory == RMul(capital, Rat(1, 2))
        skew == IF RLt(RInt(0), max_inventory)
                THEN RClamp(RMul(RDiv(RInt(inventory), max_inventory), Cents(2)),
                            Cents(-3), Cents(3))
                ELSE RInt(0)
        bid_price == RClamp(RSub(RSub(fair_value, half_spread), skew), Cents(1), Cents(99))
        ask_price == RClamp(RSub(RAdd(fair_value, half_spread), skew), Cents(1), Cents(99))
        quote_size == RMul(RMul(capital, mm_base_size_pct),
                           mm_size_multiplier(vol_regime))
    IN  IF ~should_mm(market, vol_regime, capital, yes_book) THEN <<>>
        ELSE IF action = "PullQuotes" THEN <<>>
        ELSE IF RLe(ask_price, bid_price) THEN <<>>
        ELSE IF RLt(quote_size, Rat(1, 10)) THEN <<>>
        ELSE <<OrderIntent("Yes", "Buy", floor_to_tick(bid_price), quote_size, "mm_bid"),
               OrderIntent("Yes", "Sell", ceil_to_tick(ask_price), quote_size, "mm_ask")>>

\* ------------------------------------------------------------------------
\* strategies/momentum_capture.rs
\* ------------------------------------------------------------------------
momentum_evaluate(market, yes_book, no_book, signal, vol_regime, capital) ==
    LET book == IF direction(signal) = "Up" THEN yes_book ELSE no_book
        side == IF direction(signal) = "Up" THEN "Yes" ELSE "No"
        base == RMul(capital, Cents(10))
        divergence_mult == RMin(RDiv(RAbs(signal.divergence), Cents(5)), RInt(2))
        momentum_mult == RMin(RDiv(RAbs(signal.momentum), Rat(5, 1000)), Rat(3, 2))
        max_size == RMul(capital, position_size_cap(vol_regime))
        size == RMin(RMul(RMul(base, divergence_mult), momentum_mult), max_size)
    IN  IF lifecycle_phase(market) \notin {"EarlyArbs", "PrimeZone", "MaturePhase"}
        THEN <<>>
        ELSE IF ~is_entry_signal(signal) THEN <<>>
        ELSE IF vol_regime = "Dead" THEN <<>>
        ELSE IF direction(signal) = "Neutral" THEN <<>>
        ELSE IF ~has_ask(book) THEN <<>>
        ELSE IF RLt(size, Rat(1, 2)) THEN <<>>
        ELSE <<OrderIntent(side, "Buy", Cents(best_ask(book).price), size, "momentum")>>

\* ------------------------------------------------------------------------
\* strategies/lag_exploit.rs, from the specification of the lag engine: the
\* leg whose side the reference move favors is entered on a net edge above
\* lag_min_edge, at a price within [0.20, 0.80], with the half-spread under
\* 10% of the ask, with more than 120 s remaining and no stuck position; the
\* spend is min(budget, depth) and at least the minimum order value.
\* ------------------------------------------------------------------------
lag_evaluate(market, yes_book, no_book, fair_up, vol_regime, capital, ref_move, has_stuck_position) ==
    LET side == IF ref_move = "up" THEN "Yes" ELSE "No"
        book == IF side = "Yes" THEN yes_book ELSE no_book
        fair == IF side = "Yes" THEN fair_up ELSE RSub(RInt(1), fair_up)
        ask == best_ask(book).price
        half_spread == Rat(ask - best_bid(book).price, 200)
        net_edge == RSub(RSub(fair, Cents(ask)), half_spread)
        budget == RMul(capital, size_cap_for_capital(capital))
        walk == calculate_buy_market_price(book, budget)
        spend == RMin(budget, walk.depth)
    IN  IF ref_move = "none" \/ has_stuck_position THEN <<>>
        ELSE IF time_remaining_secs(market) <= 120 THEN <<>>
        ELSE IF ~has_ask(book) \/ ~has_bid(book) THEN <<>>
        ELSE IF ~RLt(lag_min_edge, net_edge) THEN <<>>
        ELSE IF ask < 20 \/ ask > 80 THEN <<>>
        ELSE IF ~RLt(half_spread, RMul(Cents(10), Cents(ask))) THEN <<>>
        ELSE IF RLt(spend, RInt(1)) THEN <<>>
        ELSE <<OrderIntent(side, "Buy", Cents(walk.worst_price),
                           RDiv(spend, Cents(walk.worst_price)), "lag")>>

\* ------------------------------------------------------------------------
\* strategies/orchestrator.rs. in holds the arguments of one evaluate call.
\* ------------------------------------------------------------------------
strategy_priority(vol_regime) ==
    CASE vol_regime = "Dead" -> <<"MarketMaking", "PureArb", "StraddleBias">>
      [] vol_regime = "Low" -> <<"StraddleBias", "MarketMaking", "PureArb", "LagExploit">>
      [] vol_regime = "Medium" ->
            <<"LagExploit", "StraddleBias", "MarketMaking", "Momentum", "PureArb">>
      [] vol_regime = "High" -> <<"PureArb", "LagExploit", "StraddleBias", "Momentum">>
      [] OTHER -> <<"PureArb", "StraddleBias">>

capital_for_market(market, total_capital) ==
    RMul(total_capital, allocation_pct(market.asset, market.duration))

total_order_cost(orders) ==
    RSum([i \in 1..Len(orders) |-> RMul(orders[i].price, orders[i].size)])

\* one arm of the match on the strategy: the intents of the engine, if enabled
engine_orders(strategy, in, effective_arb, remaining_capital) ==
    CASE strategy = "StraddleBias" ->
            IF straddle_enabled
            THEN straddle_evaluate(in.market, in.yes_book, in.no_book, effective_arb,
                                   in.bias_signal, in.vol_regime, remaining_capital)
            ELSE <<>>
      [] strategy = "PureArb" ->
            IF arb_enabled
            THEN pure_arb_evaluate(in.market, in.yes_book, in.no_book, in.vol_regime,
                                   remaining_capital)
            ELSE <<>>
      [] strategy = "LagExploit" ->
            IF lag_exploit_enabled
            THEN lag_evaluate(in.market, in.yes_book, in.no_book, in.fair_up,
                              in.vol_regime, remaining_capital, in.ref_move,
                              in.has_stuck_position)
            ELSE <<>>
      [] strategy = "MarketMaking" ->
            IF market_making_enabled
            THEN mm_evaluate(in.market, in.yes_book, in.fair_up, in.vol_regime,
                             remaining_capital, in.net_yes_inventory,
                             in.binance_1s_move_pct, in.order_flow_imbalance,
                             in.liquidation_active)
            ELSE <<>>
      [] OTHER ->
            IF momentum_enabled /\ in.momentum_signal.some
            THEN momentum_evaluate(in.market, in.yes_book, in.no_book,
                                   in.momentum_signal, in.vol_regime, remaining_capital)
            ELSE <<>>

\* the loop over the priority list, from the strategies still to run
RECURSIVE run_strategies(_, _, _, _, _)
run_strategies(priority, all_orders, in, effective_arb, capital_for_this_market) ==
    IF priority = <<>> THEN all_orders
    ELSE LET remaining_capital ==
                 RSub(capital_for_this_market, total_order_cost(all_orders))
         IN  IF RLt(remaining_capital, Rat(1, 2)) THEN all_orders
             ELSE run_strategies(
                      Tail(priority),
                      all_orders \o engine_orders(Head(priority), in, effective_arb,
                                                  remaining_capital),
                      in, effective_arb, capital_for_this_market)

\* an orchestrator without the lifecycle test, its engines taking the market
\* for one in its prime zone
evaluate_any_phase(in) ==
    LET prime == [in EXCEPT !.market.elapsed = 60]
    IN  run_strategies(strategy_priority(in.vol_regime), <<>>, prime,
                       scan(in.yes_book, in.no_book, in.vol_regime,
                            arb_min_expected_profit),
                       capital_for_market(in.market, in.available_capital))

evaluate(in) ==
    LET computed_arb == IF ~in.arb_signal.some
                        THEN scan(in.yes_book, in.no_book, in.vol_regime,
                                  arb_min_expected_profit)
                        ELSE NoArbSignal
        effective_arb == IF in.arb_signal.some THEN in.arb_signal ELSE computed_arb
    IN  IF lifecycle_phase(in.market) \in {"Lockout", "Resolved"} THEN <<>>
        ELSE run_strategies(strategy_priority(in.vol_regime), <<>>, in, effective_arb,
                            capital_for_market(in.market, in.available_capital))

\* ------------------------------------------------------------------------
\* Inputs
\* ------------------------------------------------------------------------
token_of(market_id, side) == <<market_id, side>>

\* fills as the Position Manager's callers may hand them over
Fills ==
    [side : OrderSides, market_id : Markets, market_side : Sides,
     price : FillPrices, size : FillSizes, fee : FillFees]

\* fill events of the user stream: market m1, market_side always Yes, as
\* feeds/user_ws.rs builds them; no fee reported
FillEvents == {f \in Fills : f.market_id = "m1" /\ f.market_side = "Yes" /\ f.fee = 0}

\* what orch.evaluate hands the loop: one directional intent, or two paired legs
EvalOrders ==
    {<<[market_side |-> "Yes", price |-> 3, size |-> n]>> : n \in FillSizes}
    \cup {<<[market_side |-> "Yes", price |-> 1, size |-> 2],
            [market_side |-> "No", price |-> 1, size |-> 2]>>}

\* one market of the feed cache at different moments of its interval
OrchMarkets ==
    {[asset |-> "BTC", duration |-> "FiveMin", elapsed |-> e] : e \in FiveMinElapsed}
    \cup {[asset |-> "ETH", duration |-> "FifteenMin", elapsed |-> e] : e \in FifteenMinElapsed}

Book(bid, ask, depth) ==
    [bids |-> <<[price |-> bid - 1, size |-> depth], [price |-> bid, size |-> depth]>>,
     asks |-> <<[price |-> ask, size |-> depth], [price |-> ask + 1, size |-> depth]>>]

EmptyBook == [bids |-> <<>>, asks |-> <<>>]

\* YES and NO books: asks summing to 0.80, asks summing to 1.02, no NO book yet
BookPairs ==
    {<<Book(48, 50, BookDepth), Book(28, 30, BookDepth)>>,
     <<Book(50, 52, BookDepth), Book(48, 50, BookDepth)>>,
     <<Book(48, 50, BookDepth), EmptyBook>>}

NoBias == [some |-> FALSE, direction |-> "Neutral", confidence |-> RInt(0)]

NoMomentum ==
    [some |-> FALSE, momentum |-> RInt(0), divergence |-> RInt(0), exhausted |-> FALSE]

\* the signals handed to evaluate: none (as main.rs calls it), a bias
\* signal, a momentum signal
SignalSamples ==
    {[bias_signal |-> NoBias, momentum_signal |-> NoMomentum],
     [bias_signal |-> [some |-> TRUE, direction |-> "Up", confidence |-> Cents(87)],
      momentum_signal |-> NoMomentum],
     [bias_signal |-> NoBias,
      momentum_signal |-> [some |-> TRUE, momentum |-> Rat(5, 1000),
                           divergence |-> Cents(5), exhausted |-> FALSE]]}

\* the reference feed around the call: quiet, one-sided flow, a liquidation
\* cascade, a down move the books have not followed yet
FeedSamples ==
    {[binance_1s_move_pct |-> RInt(0), order_flow_imbalance |-> RInt(0),
      liquidation_active |-> FALSE, ref_move |-> "none"],
     [binance_1s_move_pct |-> RInt(0), order_flow_imbalance |-> RInt(4),
      liquidation_active |-> FALSE, ref_move |-> "none"],
     [binance_1s_move_pct |-> RInt(0), order_flow_imbalance |-> RInt(0),
      liquidation_active |-> TRUE, ref_move |-> "none"],
     [binance_1s_move_pct |-> RInt(0), order_flow_imbalance |-> RInt(0),
      liquidation_active |-> FALSE, ref_move |-> "down"]}

OrchInputs ==
    [market : OrchMarkets, books : BookPairs, vol_regime : VolRegimes,
     signals : SignalSamples, feed : FeedSamples]

\* the arguments main.rs passes for the samples i, the capital and the
\* inventory read from the Position Manager
OrchCall(i) ==
    [market |-> i.market, yes_book |-> i.books[1], no_book |-> i.books[2],
     vol_regime |-> i.vol_regime,
     available_capital |-> Rat(available_capital(portfolio), Dollar),
     fair_up |-> Cents(50), ref_move |-> i.feed.ref_move, has_stuck_position |-> FALSE,
     arb_signal |-> NoArbSignal, bias_signal |-> i.signals.bias_signal,
     momentum_signal |-> i.signals.momentum_signal,
     net_yes_inventory |-> net_yes_inventory(portfolio, "m1"),
     binance_1s_move_pct |-> i.feed.binance_1s_move_pct,
     order_flow_imbalance |-> i.feed.order_flow_imbalance,
     liquidation_active |-> i.feed.liquidation_active]

\* no evaluate call made yet
OrchIdle ==
    [called |-> FALSE, phase |-> "none", capital_for_market |-> RInt(0), orders |-> <<>>,
     in |-> [market |-> [asset |-> "BTC", duration |-> "FiveMin", elapsed |-> 0],
             yes_book |-> EmptyBook, no_book |-> EmptyBook, vol_regime |-> "Dead",
             available_capital |-> RInt(0), fair_up |-> RInt(0), ref_move |-> "none",
             has_stuck_position |-> FALSE, arb_signal |-> NoArbSignal,
             bias_signal |-> NoBias, momentum_signal |-> NoMomentum,
             net_yes_inventory |-> 0, binance_1s_move_pct |-> RInt(0),
             order_flow_imbalance |-> RInt(0), liquidation_active |-> FALSE]]

\* collateral balances the gateway reports to the balance sync
Balances == {2}

\* the loop between two price updates; result is what check_order last returned
\* in the running iteration
EvalIdle == [pc |-> "idle", orders |-> <<>>, idx |-> 0, approved |-> <<>>, result |-> "none"]

\* ------------------------------------------------------------------------
\* main.rs evaluation loop: the per-asset throttle. Instants in milliseconds.
\* ------------------------------------------------------------------------
Assets == {"BTC", "ETH"}

\* how far the clock moves between two receives of the price channel
ClockSteps == {50, 150, 200}

eval_cooldown == 200

\* HashMap::get on an asset never evaluated
NoInstant == -1

\* a loop without the throttle
never_in_cooldown(last_eval, asset, now) == FALSE

\* the throttle test: the asset was evaluated less than eval_cooldown ago
in_cooldown(last_eval, asset, now) ==
    /\ last_eval[asset] # NoInstant
    /\ now - last_eval[asset] < eval_cooldown

ThrottleIdle ==
    [now |-> 0, last_eval |-> [a \in Assets |-> NoInstant],
     started |-> [a \in Assets |-> <<>>], last |-> "none"]

\* ------------------------------------------------------------------------
\* feeds/polymarket.rs: the book cache of one token. Levels are kept in
\* ascending price order, as a BTreeMap iterates them; prices in cents.
\* ------------------------------------------------------------------------
BookPrices == {49, 50, 51}
\* sizes of a level in a delta: 0 removes the level
LevelSizes == {0, 1}

\* BTreeMap::remove
map_remove(levels, price) == SelectSeq(levels, LAMBDA l : l.price # price)

\* BTreeMap::insert
map_insert(levels, price, size) ==
    SelectSeq(levels, LAMBDA l : l.price < price)
        \o <<[price |-> price, size |-> size]>>
        \o SelectSeq(levels, LAMBDA l : l.price > price)

\* one level of a delta applied to one side of the book
apply_level(levels, level) ==
    IF level.size = 0 THEN map_remove(levels, level.price)
    ELSE map_insert(levels, level.price, level.size)

RECURSIVE apply_levels(_, _)
apply_levels(levels, delta) ==
    IF delta = <<>> THEN levels
    ELSE apply_levels(apply_level(levels, Head(delta)), Tail(delta))

\* handle_ws_message on one update, under the entry's write guard
apply_update(book, update) ==
    [bids |-> apply_levels(book.bids, update.bids),
     asks |-> apply_levels(book.asks, update.asks)]

\* fetch_book_static: the book built from the levels of the REST answer
RECURSIVE insert_levels(_, _)
insert_levels(levels, answer) ==
    IF answer = <<>> THEN levels
    ELSE insert_levels(map_insert(levels, Head(answer).price, Head(answer).size),
                       Tail(answer))

fetch_book_static(resp) ==
    [bids |-> insert_levels(<<>>, resp.bids), asks |-> insert_levels(<<>>, resp.asks)]

\* bids and asks do not overlap, or one side is empty
uncrossed(book) ==
    IF has_bid(book) /\ has_ask(book)
    THEN best_bid(book).price < best_ask(book).price
    ELSE TRUE

\* what the exchange may do to its book in one step: set or remove one level
ExchangeUpdates ==
    {[bids |-> <<[price |-> p, size |-> z]>>, asks |-> <<>>] :
        p \in BookPrices, z \in LevelSizes}
    \cup {[bids |-> <<>>, asks |-> <<[price |-> p, size |-> z]>>] :
        p \in BookPrices, z \in LevelSizes}

BookFeedIdle ==
    [exchange |-> [bids |-> <<[price |-> 50, size |-> 1]>>,
                   asks |-> <<[price |-> 51, size |-> 1]>>],
     wire |-> <<>>,
     rest |-> [some |-> FALSE, book |-> EmptyBook],
     cache |-> [some |-> FALSE, book |-> EmptyBook]]

\* ------------------------------------------------------------------------
\* risk/position_manager.rs: the RwLock around the Portfolio. The three
\* mutating methods are called from three tasks of main.rs.
\* ------------------------------------------------------------------------
Writers == {"fill_consumer", "resolution_tracker", "balance_sync"}

\* the calls a task may make
WriterCalls(task) ==
    IF task = "fill_consumer"
    THEN {[method |-> "record_fill", fill |-> f] : f \in FillEvents}
    ELSE IF task = "resolution_tracker"
    THEN {[method |-> "record_resolution", market_id |-> "m1", winning_side |-> w] :
             w \in Sides}
    ELSE {[method |-> "sync_capital_from_balance", on_chain_balance |-> b] :
             b \in Balances}

\* the portfolio a call leaves when it runs alone on p
call_result(call, p) ==
    IF call.method = "record_fill"
    THEN record_fill(p, [side |-> call.fill.side,
                         token_id |-> <<call.fill.market_id, call.fill.market_side>>,
                         price |-> call.fill.price, size |-> call.fill.size,
                         fee |-> call.fill.fee],
                     call.fill.market_id, call.fill.market_side)
    ELSE IF call.method = "record_resolution"
    THEN record_resolution(p, call.market_id, call.winning_side)
    ELSE sync_capital_from_balance(p, call.on_chain_balance)

\* a guard released after the first statements of a method
write_guard_dropped_early(call) == "statement"

\* 'let mut portfolio = self.portfolio.write().await' at the top of each
\* method: the write guard lives until the method returns
write_guard_scope(call) == "function"

\* the first writes of a method: the positions and straddles vectors
first_writes(result, p) ==
    [p EXCEPT !.positions = result.positions, !.straddles = result.straddles]

\* the remaining writes: capital, P&L and the counters
last_writes(result, p) ==
    [result EXCEPT !.positions = p.positions, !.straddles = p.straddles]

NoCall == [method |-> "none"]

PmIdle(p) ==
    [guard |-> "free",
     tasks |-> [t \in Writers |-> [pc |-> "idle", call |-> NoCall, result |-> p]],
     serial |-> <<p>>,
     seen |-> [some |-> FALSE, value |-> p]]

\* ------------------------------------------------------------------------
\* main.rs and bin/live_trade.rs: shutdown
\* ------------------------------------------------------------------------
\* the tasks that subscribed to shutdown_tx
BackgroundTasks == {"feeds", "fill_consumer", "watchdog", "evaluation"}

\* the process up and trading: every task running, nothing resting yet
ShutdownIdle ==
    [binary |-> "none", pc |-> "running", tasks |-> BackgroundTasks,
     resting |-> 0, events |-> <<>>]

\* ------------------------------------------------------------------------
\* feeds/binance.rs, feeds/polymarket.rs, feeds/user_ws.rs: reconnect loops
\* (delays in milliseconds)
\* ------------------------------------------------------------------------
Streams == {"binance", "polymarket", "user_ws"}

\* let mut backoff_ms = ...; and the value it is reset to on Ok(..)
user_ws_initial_backoff == 1000
feed_initial_backoff == 500
initial_backoff(s) == IF s = "user_ws" THEN user_ws_initial_backoff ELSE feed_initial_backoff

max_backoff == 30000

\* backoff_ms = (backoff_ms * 2).min(max_backoff)
next_backoff(backoff_ms) == IF backoff_ms * 2 < max_backoff THEN backoff_ms * 2 ELSE max_backoff

\* a loop about to make its first attempt. `lapses` counts the failed
\* attempts and disconnects since the last successful connection (or the
\* start), `delays` lists the sleeps taken since then.
StreamIdle(s) ==
    [pc |-> "connecting", backoff_ms |-> initial_backoff(s), lapses |-> 0, delays |-> <<>>]

\* ------------------------------------------------------------------------
\* feeds/polymarket.rs: market discovery and the sweep of expired markets
\* (one asset, five-minute markets; a slug is the start of its interval)
\* ------------------------------------------------------------------------
DiscoverySteps == {50, 100}
ResolveOutcomes == {"market", "none", "err"}

\* MarketDiscovery::upcoming_slugs(asset, duration, 2)
upcoming_slugs(now) ==
    LET current_start == (now \div INTERVAL) * INTERVAL
    IN  <<current_start, current_start + INTERVAL>>

\* Market::with_condition_id: open and close come from the clock, not the slug
with_condition_id(slug, now) ==
    LET interval_start == (now \div INTERVAL) * INTERVAL
    IN  [slug |-> slug, duration |-> "FiveMin",
         open_time |-> interval_start, close_time |-> interval_start + INTERVAL]

\* the cached market as its methods see it at `now`
market_at(entry, now) ==
    [duration |-> entry.duration,
     elapsed |-> IF now > entry.open_time THEN now - entry.open_time ELSE 0]

contains_key(markets, slug) == \E e \in markets : e.slug = slug

\* one slug of the tick: skip if tracked, resolve, pre-fetch the two books,
\* insert the market
discover_slug(d, slug, outcome, yes_ok, no_ok) ==
    IF contains_key(d.markets, slug) \/ outcome # "market" THEN d
    ELSE LET fetched == (IF yes_ok THEN {<<slug, "Yes">>} ELSE {})
                            \cup (IF no_ok THEN {<<slug, "No">>} ELSE {})
         IN  [d EXCEPT !.markets = @ \cup {with_condition_id(slug, d.now)},
                       !.books = @ \cup fetched,
                       !.subscribed = @ \cup fetched]

\* time_remaining_secs() < -60.0
is_expired(entry, now) == time_remaining_secs(market_at(entry, now)) < 0 - 60

\* "Clean up expired markets"
sweep_expired(d) ==
    LET expired == {e \in d.markets : is_expired(e, d.now)}
        tokens == {<<e.slug, side>> : e \in expired, side \in {"Yes", "No"}}
    IN  [d EXCEPT !.markets = @ \ expired,
                  !.books = @ \ tokens,
                  !.subscribed = @ \ tokens]

DiscoveryIdle == [now |-> 0, markets |-> {}, books |-> {}, subscribed |-> {}]

\* ------------------------------------------------------------------------
\* bin/live_trade.rs: the exit controller with its capital and the sell
\* orders as the exchange holds them. Prices and money in cents, sizes in
\* whole shares.
\* ------------------------------------------------------------------------
BidSamples == {30, 40, 42}
\* the confirmed buy every position of the model comes from: 5 shares at 0.40
EntryFill == [price |-> 40, shares |-> 5]
TAKE_PROFIT_PCT == 10

\* ((worst_price * (1.0 + TAKE_PROFIT_PCT)) * 100.0).floor() / 100.0, at most 0.99
tp_price_of(worst_price) ==
    LET tp == (worst_price * (100 + TAKE_PROFIT_PCT)) \div 100
    IN  IF tp < 99 THEN tp ELSE 99

\* (current_bid - pos.entry_price) / pos.entry_price, in percent
pct_change_of(pos, current_bid) ==
    IF pos.entry_price > 0 THEN ((current_bid - pos.entry_price) * 100) \div pos.entry_price ELSE 0

\* the price of the sell order of the desired type
desired_price(pos, desired, current_bid) ==
    IF desired = "force" THEN 1
    ELSE IF desired = "sl" THEN (IF current_bid \div 2 > 1 THEN current_bid \div 2 ELSE 1)
    ELSE pos.tp_price

\* let proceeds = pos.sell_order_price * pos.size
proceeds_at_tp_price(pos) == pos.tp_price * pos.size
sale_proceeds(pos) == pos.sell_order_price * pos.size

NoPosition ==
    [id |-> 0, entry_price |-> 0, size |-> 0, cost_basis |-> 0, tp_price |-> 0,
     opened_remaining |-> 0, sell_order_id |-> FALSE, oid |-> 0, sell_order_price |-> 0,
     sell_order_type |-> "tp", sell_attempts |-> 0]

\* no position open. `orders` is the exchange's list of the sell orders
\* posted for the position, `bid` and `desired` are the locals a tick carries
\* from its status check to its post, `sold` whether it has matched one of them, `posts` the sell
\* intents submitted with the gateway's answers, `booked` the positions whose
\* sale was booked, `expired` those written off at resolution.
CtlIdle ==
    [pc |-> "idle", capital |-> LiveCapital, held |-> FALSE, pos |-> NoPosition,
     remaining |-> INTERVAL, bid |-> EntryFill.price, seen |-> "none", desired |-> "tp",
     exits |-> 0, total_exit_pnl |-> 0, opened |-> 0,
     orders |-> <<>>, sold |-> FALSE, posts |-> <<>>, booked |-> <<>>, expired |-> <<>>]

\* ------------------------------------------------------------------------
\* execution/fill_tracker.rs, with the order results of
\* execution/clob_client.rs. Sizes in whole shares, amounts in whole dollars,
\* every order priced at 0.50.
\* ------------------------------------------------------------------------
TrackedSizes == {2, 4}
TrackedPrice == [cents |-> 50]
TrackerSteps == {100, 150}

\* OrderBuilder::build: the taker amount is the shares bought for a BUY and
\* the dollars received for a SELL
taker_amount(side, size) ==
    IF side = "Buy" THEN size ELSE (TrackedPrice.cents * size) \div 100

\* the amount post_order reads the order's original size from
original_size(side, size) == taker_amount(side, size)

\* ClobClient::post_order, the order accepted
post_order_result(oid, side, size) ==
    [order_id |-> oid, status |-> "Open", filled_size |-> 0,
     remaining_size |-> original_size(side, size)]

\* FillTracker::watch
watch(t, result) ==
    [t EXCEPT !.active_orders = [o \in DOMAIN @ \cup {result.order_id} |->
                                    IF o = result.order_id THEN result ELSE @[o]]]

\* FillTracker::on_fill
on_fill(t, fill) ==
    LET oid == fill.order_id
        updated ==
            IF oid \in DOMAIN t.active_orders THEN
                LET order == t.active_orders[oid]
                IN  [t.active_orders EXCEPT ![oid] =
                        IF order.remaining_size > fill.size
                        THEN [order EXCEPT !.filled_size = @ + fill.size,
                                           !.remaining_size = @ - fill.size,
                                           !.status = "PartiallyFilled"]
                        ELSE [order EXCEPT !.filled_size = @ + fill.size,
                                           !.remaining_size = 0,
                                           !.status = "Filled"]]
            ELSE t.active_orders
        stored == IF oid \in DOMAIN t.fills THEN t.fills[oid] ELSE <<>>
    IN  [t EXCEPT !.active_orders = updated,
                  !.fills = [o \in DOMAIN @ \cup {oid} |->
                                IF o = oid THEN Append(stored, fill) ELSE @[o]]]

\* FillTracker::cleanup_completed
cleanup_completed(t) ==
    LET kept == {o \in DOMAIN t.active_orders :
                    t.active_orders[o].status \notin {"Filled", "Cancelled", "Rejected"}}
    IN  [t EXCEPT !.active_orders = [o \in kept |-> t.active_orders[o]]]

\* MarketDiscovery::time_remaining_in_current
time_remaining_in_current(now) ==
    LET current_start == (now \div INTERVAL) * INTERVAL
    IN  (current_start + INTERVAL) - now

\* nothing tracked; `exchange` holds, per order, its side, size and the shares
\* still unfilled; `last` is the fill on_fill processed last
TrackerIdle ==
    [now |-> 0, active_orders |-> <<>>, fills |-> <<>>, exchange |-> <<>>,
     last |-> [order_id |-> 0, size |-> 0]]

\* ------------------------------------------------------------------------
\* signals/arb_scanner.rs: the books and regimes scan is called on
\* ------------------------------------------------------------------------
\* YES and NO books with best asks summing to 0.88 .. 1.02 and one, two or a
\* hundred shares a level, or no asks at all
ScanYesBooks ==
    {Book(ask - 2, ask, depth) : ask \in {45, 48, 50}, depth \in {1, 2, 100}} \cup {EmptyBook}
ScanNoBooks ==
    {Book(ask - 2, ask, depth) : ask \in {43, 47, 49, 50, 52}, depth \in {1, 2, 100}}
        \cup {EmptyBook}

ScannerIdle ==
    [called |-> FALSE, yes_book |-> EmptyBook, no_book |-> EmptyBook,
     vol_regime |-> "Dead", min_profit |-> RInt(0), signal |-> NoArbSignal]

\* ------------------------------------------------------------------------
\* config.rs: the configuration a process starts with
\* ------------------------------------------------------------------------
\* POLYMARKET_PRIVATE_KEY as the environment gives it: absent, the placeholder
\* of the sample .env, a string that is no key, a key
KeySettings == {"unset", "your_private_key_here", "not_hex", "0xkey"}
\* DRY_RUN as the environment gives it
DryRunSettings == {"unset", "true", "1", "false"}
Binaries == {"main", "live_trade"}

load_or_default(env) ==
    [private_key |-> IF env.POLYMARKET_PRIVATE_KEY \in {"unset", "your_private_key_here"}
                     THEN "" ELSE env.POLYMARKET_PRIVATE_KEY,
     max_exposure_pct |-> max_exposure_pct,
     capital_allocation |-> <<allocation_pct("BTC", "FiveMin"), allocation_pct("BTC", "FifteenMin"),
                              allocation_pct("ETH", "FifteenMin"), allocation_pct("SOL", "FifteenMin"),
                              allocation_pct("XRP", "FifteenMin")>>]

is_dry_run(config, env) ==
    config.private_key = "" \/ env.DRY_RUN \in {"true", "1"}

\* Config::validate: "ok", or the ensure! that failed
validate(config, env) ==
    IF ~is_dry_run(config, env) /\ config.private_key = "" THEN "private_key"
    ELSE IF ~(RLt(RInt(0), config.max_exposure_pct) /\ RLe(config.max_exposure_pct, RInt(1)))
    THEN "max_exposure_pct"
    ELSE IF ~RLt(RAbs(RSub(RSum(config.capital_allocation), RInt(1))), Cents(1))
    THEN "capital_allocation"
    ELSE "ok"

\* OrderBuilder::new: the signer the orders are signed with
signer_of(config) ==
    IF config.private_key = "" \/ config.private_key = "not_hex" THEN "random" ELSE "key"

main_feeds == {"binance", "funding_poller", "polymarket", "user_ws"}
live_trade_feeds == {"binance", "funding_poller", "polymarket"}

NoEnv == [POLYMARKET_PRIVATE_KEY |-> "unset", DRY_RUN |-> "unset"]
\* the exit code of the process: none while it runs
NoExit == <<>>
BootIdle ==
    [pc |-> "start", binary |-> "main", env |-> NoEnv, config |-> load_or_default(NoEnv),
     validation |-> "none", signer |-> "none", l2_auth |-> FALSE, feeds |-> {}, orders |-> 0,
     exit_code |-> NoExit]

\* ------------------------------------------------------------------------
\* feeds/user_ws.rs and the fill consumer of main.rs
\* ------------------------------------------------------------------------
\* what the gateway writes on the user stream for one execution of order oid:
\* a trade message, its market field present or absent
trade_message(oid, market) ==
    [parsed |-> TRUE, type |-> "trade", status |-> "MATCHED", order_id |-> oid,
     token_id |-> token_of("m1", "Yes"), market |-> market, side |-> "BUY",
     price |-> 1, size |-> 1, fee |-> 0]

\* the other traffic of the user stream: a heartbeat, a cancellation
OtherMessages ==
    {[parsed |-> FALSE, type |-> "", status |-> "", order_id |-> 0,
      token_id |-> token_of("m1", "Yes"), market |-> "", side |-> "",
      price |-> 0, size |-> 0, fee |-> 0],
     [parsed |-> TRUE, type |-> "order", status |-> "CANCELLED", order_id |-> 1,
      token_id |-> token_of("m1", "Yes"), market |-> "m1", side |-> "BUY",
      price |-> 1, size |-> 1, fee |-> 0]}

NoFillEvent == [some |-> FALSE]

\* UserWsFeed::handle_message: the FillEvent sent on the channel, if any.
\* order_id 0 stands for an absent or empty id.
handle_message(msg) ==
    IF ~msg.parsed THEN NoFillEvent
    ELSE IF msg.type # "trade" /\ msg.status \notin {"MATCHED", "FILLED"} THEN NoFillEvent
    ELSE IF msg.order_id = 0 THEN NoFillEvent
    ELSE IF msg.size = 0 THEN NoFillEvent
    ELSE [some |-> TRUE, order_id |-> msg.order_id, token_id |-> msg.token_id,
          market_id |-> msg.market,
          side |-> IF msg.side = "SELL" THEN "Sell" ELSE "Buy",
          market_side |-> "Yes", price |-> msg.price, size |-> msg.size,
          fee |-> msg.fee, strategy_tag |-> ""]

\* tokio broadcast channel: a send into a full buffer overwrites the oldest
\* value, and the receiver that had not read it has missed it
broadcast_send(ch, event) ==
    IF Len(ch.queue) < MaxFillChannel
    THEN [ch EXCEPT !.queue = Append(@, event)]
    ELSE [ch EXCEPT !.queue = Append(Tail(@), event), !.missed = @ + 1]

\* the Fill the consumer builds from an event
fill_of_event(event) ==
    [order_id |-> event.order_id, token_id |-> event.token_id, side |-> event.side,
     price |-> event.price, size |-> event.size, fee |-> event.fee]

FillPathIdle ==
    [orders |-> <<>>, executed |-> {}, wire |-> <<>>, channel |-> [queue |-> <<>>, missed |-> 0],
     lagged |-> 0, tracked |-> <<>>, recorded |-> <<>>, pnl_fills |-> <<>>]

\* ------------------------------------------------------------------------
\* models/market.rs: the reference price of a market
\* ------------------------------------------------------------------------
\* prices of the reference feed, in dollars
FeedPrices == {99, 100, 101}
\* seconds between two steps of the loops
RefSteps == {148, 150}

\* Market::new: reference_price 0.0 until it is set
new_market == [slug |-> "m1", reference_price |-> 0]

\* Market::set_reference_price
set_reference_price(market, price) ==
    IF market.reference_price = 0 THEN [market EXCEPT !.reference_price = price] ELSE market

\* PolymarketFeed::get_market: a clone of the cached market, if there is one
get_market(cache) == cache

NoMarket == [some |-> FALSE, market |-> new_market]
RefPriceIdle ==
    [now |-> 0, cache |-> NoMarket, first_price |-> 0, evaluations |-> <<>>,
     resolutions |-> <<>>]

\* no order submitted yet; `batches` counts the submitted batches
GatewayIdle == [resting |-> <<>>, filled |-> <<>>, batches |-> 0]

\* the collateral at the exchange equals the capital the session starts with;
\* nothing executed, no balance fetched
ChainIdle ==
    [on_chain |-> StartingCapital, pending |-> <<>>, executed |-> 0,
     fetched |-> [some |-> FALSE, balance |-> 0], history |-> <<>>]

\* ------------------------------------------------------------------------
\* main.rs: the resolution tracker
\* ------------------------------------------------------------------------
\* MarketDiscovery::current_slug, the slug standing for its interval start
current_slug(now) == (now \div INTERVAL) * INTERVAL

\* seconds between two looks at the clock
ResolverSteps == {100, 150}
\* reference prices the cached market may carry, and reference-feed prices
CachedReferences == {0, 100}

ResolverIdle == [now |-> 0, resolved_slugs |-> {}, resolutions |-> <<>>]

\* the loops and feeds before their first step
OthersIdle ==
    /\ throttle = ThrottleIdle
    /\ bookfeed = BookFeedIdle
    /\ pm = PmIdle(portfolio)
    /\ shutdown = ShutdownIdle
    /\ streams = [s \in Streams |-> StreamIdle(s)]
    /\ discovery = DiscoveryIdle
    /\ ctl = CtlIdle
    /\ tracker = TrackerIdle
    /\ scanner = ScannerIdle
    /\ boot = BootIdle
    /\ fillpath = FillPathIdle
    /\ refprice = RefPriceIdle
    /\ gateway = GatewayIdle
    /\ chain = ChainIdle
    /\ resolver = ResolverIdle

\* ------------------------------------------------------------------------
\* Initial state: main.rs after construction of the components
\* ------------------------------------------------------------------------
Init ==
    /\ portfolio = Portfolio(StartingCapital)
    /\ killed = FALSE
    /\ size_reduction_active = FALSE
    /\ size_multiplier = RInt(1)
    /\ fills = 0
    /\ eval = EvalIdle
    /\ sent = "none"
    /\ buy = BuyIdle(LiveCapital, <<>>)
    /\ live = LiveFlat
    /\ orch = OrchIdle
    /\ OthersIdle

\* ------------------------------------------------------------------------
\* Position Manager operations
\* ------------------------------------------------------------------------
FillOf(f) ==
    [side |-> f.side, token_id |-> token_of(f.market_id, f.market_side),
     price |-> f.price, size |-> f.size, fee |-> f.fee]

RecordFillOf(f) ==
    /\ fills < MaxFills
    /\ portfolio' = record_fill(portfolio, FillOf(f), f.market_id, f.market_side)
    /\ fills' = fills + 1
    /\ sent' = "none"
    /\ UNCHANGED <<killed, size_reduction_active, size_multiplier, eval>>
    /\ UNCHANGED elsewhere

\* record_fill called with any valid fill
RecordFill == \E f \in Fills : RecordFillOf(f)

\* main.rs fill consumer: a fill event of the user stream is recorded
FillConsumer == \E f \in FillEvents : RecordFillOf(f)

ResolutionOf(market_id, winning_side) ==
    /\ portfolio' = record_resolution(portfolio, market_id, winning_side)
    /\ sent' = "none"
    /\ UNCHANGED <<killed, size_reduction_active, size_multiplier, fills, eval>>
    /\ UNCHANGED elsewhere

\* record_resolution called for a market (main.rs resolution tracker)
RecordResolution == \E m \in Markets, w \in Sides : ResolutionOf(m, w)

\* main.rs balance sync loop: fetch_balance succeeded, capital is reconciled
BalanceSync ==
    /\ \E b \in Balances :
          portfolio' = sync_capital_from_balance(portfolio, b)
    /\ sent' = "none"
    /\ UNCHANGED <<killed, size_reduction_active, size_multiplier, fills, eval>>
    /\ UNCHANGED elsewhere

\* ------------------------------------------------------------------------
\* Risk Manager operations
\* ------------------------------------------------------------------------
Kill ==
    /\ killed' = kill
    /\ sent' = "none"
    /\ UNCHANGED <<portfolio, size_reduction_active, size_multiplier, fills, eval>>
    /\ UNCHANGED elsewhere

ResetKill ==
    /\ killed' = reset_kill
    /\ sent' = "none"
    /\ UNCHANGED <<portfolio, size_reduction_active, size_multiplier, fills, eval>>
    /\ UNCHANGED elsewhere

\* main.rs risk watchdog: one 500 ms tick, periodic_check and what follows it
WatchdogTick ==
    LET r == periodic_check(portfolio, killed, size_reduction_active, size_multiplier)
    IN  /\ killed' = r.killed
        /\ size_reduction_active' = r.size_reduction_active
        /\ size_multiplier' = r.size_multiplier
        /\ sent' = IF r.action = "KillSwitch" THEN "cancel_all" ELSE "none"
        /\ UNCHANGED <<portfolio, fills, eval>>
        /\ UNCHANGED elsewhere

\* ------------------------------------------------------------------------
\* main.rs evaluation loop, one step per suspension point
\* ------------------------------------------------------------------------
\* a price update arrives: kill-switch test, then orch.evaluate
EvalStart ==
    /\ eval.pc = "idle"
    /\ ~killed
    /\ \E orders \in EvalOrders :
          eval' = [pc |-> "check", orders |-> orders, idx |-> 1,
                   approved |-> <<>>, result |-> "none"]
    /\ sent' = "none"
    /\ UNCHANGED <<portfolio, killed, size_reduction_active, size_multiplier, fills>>
    /\ UNCHANGED elsewhere

\* risk.check_order(order).await for the next order of the batch
EvalCheck ==
    /\ eval.pc = "check"
    /\ LET o == eval.orders[eval.idx]
           r == check_order(portfolio, killed, o)
           approved1 == IF r = "Ok" THEN Append(eval.approved, o) ELSE eval.approved
       IN  eval' = [eval EXCEPT !.idx = IF eval.idx < Len(eval.orders) THEN eval.idx + 1 ELSE eval.idx,
                                !.pc = IF eval.idx < Len(eval.orders) THEN "check" ELSE "checked",
                                !.approved = approved1,
                                !.result = r]
    /\ sent' = "none"
    /\ UNCHANGED <<portfolio, killed, size_reduction_active, size_multiplier, fills>>
    /\ UNCHANGED elsewhere

\* nothing was approved: the iteration ends without a request
EvalDrop ==
    /\ eval.pc = "checked"
    /\ eval.approved = <<>>
    /\ eval' = EvalIdle
    /\ sent' = "none"
    /\ UNCHANGED <<portfolio, killed, size_reduction_active, size_multiplier, fills>>
    /\ UNCHANGED elsewhere

\* the size multiplier is applied and the batch goes to the gateway; post_order
\* reports no immediate fill, so the ledger is left alone
EvalSubmit ==
    /\ eval.pc = "checked"
    /\ eval.approved # <<>>
    /\ sent' = "orders"
    /\ eval' = EvalIdle
    /\ UNCHANGED <<portfolio, killed, size_reduction_active, size_multiplier, fills>>
    /\ UNCHANGED elsewhere

Next ==
    \/ FillConsumer
    \/ RecordResolution
    \/ BalanceSync
    \/ Kill
    \/ ResetKill
    \/ WatchdogTick
    \/ EvalStart
    \/ EvalCheck
    \/ EvalDrop
    \/ EvalSubmit

Spec == Init /\ [][Next]_vars

\* ------------------------------------------------------------------------
\* The Position Manager alone, under any sequence of fills and resolutions
\* ------------------------------------------------------------------------
NextLedger ==
    \/ RecordFill
    \/ RecordResolution

SpecLedger == Init /\ [][NextLedger]_vars

\* ------------------------------------------------------------------------
\* record_resolution on any holdings. Portfolio.positions and
\* Portfolio.straddles are public fields; the holdings are drawn from every
\* short sequence of positions and straddles over the markets.
\* ------------------------------------------------------------------------
HeldPositions ==
    {[market_id |-> m, token_id |-> token_of(m, sd), side |-> sd, size |-> n,
      avg_entry_price |-> RInt(3)] : m \in Markets, sd \in Sides, n \in FillSizes}

HeldStraddles ==
    {StraddlePosition(m, y, n, 1, 1) : m \in Markets, y \in FillSizes, n \in FillSizes}

SeqsUpTo(S, n) == UNION {[1..k -> S] : k \in 0..n}

InitHoldings ==
    /\ \E ps \in SeqsUpTo(HeldPositions, MaxHeldPositions),
          ss \in SeqsUpTo(HeldStraddles, MaxHeldStraddles) :
          portfolio = [Portfolio(StartingCapital) EXCEPT !.positions = ps, !.straddles = ss]
    /\ killed = FALSE
    /\ size_reduction_active = FALSE
    /\ size_multiplier = RInt(1)
    /\ fills = 0
    /\ eval = EvalIdle
    /\ sent = "none"
    /\ buy = BuyIdle(LiveCapital, <<>>)
    /\ live = LiveFlat
    /\ orch = OrchIdle
    /\ OthersIdle

NextResolution == RecordResolution

SpecResolution == InitHoldings /\ [][NextResolution]_vars

\* ------------------------------------------------------------------------
\* bin/live_trade.rs: one try_market_buy call after the other, a step per request
\* ------------------------------------------------------------------------
\* build_market_order and the FOK post
BuyPost ==
    /\ buy.pc = "idle"
    /\ Len(buy.positions) < MaxEntries
    /\ \E outcome \in {"sign_error", "post_error", "rejected", "accepted"},
          spend \in SignedSpends, shares \in SignedShares :
          buy' = IF outcome = "accepted"
                 THEN [buy EXCEPT !.pc = "poll", !.actual_spend = spend,
                                  !.actual_shares = shares]
                 ELSE [buy EXCEPT !.pc = "done", !.ret = "false"]
    /\ UNCHANGED <<coreVars, live, orch, others>>

\* one get_order of the verification loop; when the loop ends, the test of
\* confirmed_shares and the debit of capital
BuyPoll ==
    /\ buy.pc = "poll"
    /\ \E r \in PollResults :
          LET o == poll_once(buy.attempt, r, buy.actual_shares)
              ends == o.stop \/ buy.attempt = POLL_ATTEMPTS - 1
              seen == Append(buy.polls, r)
          IN  buy' = IF ~ends
                     THEN [buy EXCEPT !.attempt = buy.attempt + 1, !.polls = seen]
                     ELSE IF o.confirmed = 0
                     THEN [buy EXCEPT !.polls = seen, !.pc = "done", !.ret = "false"]
                     ELSE [buy EXCEPT !.polls = seen, !.confirmed = o.confirmed,
                                      !.capital = buy.capital - buy.actual_spend,
                                      !.pc = "place_tp"]
    /\ UNCHANGED <<coreVars, live, orch, others>>

\* the take-profit sell is posted and the position is pushed
BuyPlaceTp ==
    /\ buy.pc = "place_tp"
    /\ \E placed \in BOOLEAN :
          buy' = [buy EXCEPT
                    !.positions = Append(buy.positions,
                        [size |-> buy.confirmed, cost_basis |-> buy.actual_spend,
                         sell_order_id |-> placed, sell_order_type |-> "tp",
                         sell_attempts |-> IF placed THEN 1 ELSE 0]),
                    !.pc = "done", !.ret = "true"]
    /\ UNCHANGED <<coreVars, live, orch, others>>

\* the call returns to the tick loop
BuyReturn ==
    /\ buy.pc = "done"
    /\ buy' = BuyIdle(buy.capital, buy.positions)
    /\ UNCHANGED <<coreVars, live, orch, others>>

NextBuy ==
    \/ BuyPost
    \/ BuyPoll
    \/ BuyPlaceTp
    \/ BuyReturn

SpecBuy == Init /\ [][NextBuy]_vars

\* ------------------------------------------------------------------------
\* bin/live_trade.rs: ticks of the main loop, seen from one open position
\* ------------------------------------------------------------------------
\* exit logic for the position, given this tick's reads and the gateway's answers
ExitLogic(remaining, hold_secs, pct_change, status, posted) ==
    LET pos == live.pos
        desired == desired_type(remaining, hold_secs, pct_change)
        replaced == [pos EXCEPT !.sell_order_id = posted,
                                !.sell_order_type = IF posted THEN desired
                                                    ELSE pos.sell_order_type,
                                !.sell_attempts = pos.sell_attempts + 1]
    IN  IF pos.sell_order_id /\ status = "MATCHED" THEN
            [live EXCEPT !.remaining = remaining, !.hold_secs = hold_secs,
                         !.pos.open = FALSE, !.outcome = "sold"]
        ELSE IF needs_replacement(pos, desired) THEN
            [live EXCEPT !.remaining = remaining, !.hold_secs = hold_secs,
                         !.pos = replaced,
                         !.placed = IF posted THEN Append(live.placed, desired)
                                    ELSE live.placed]
        ELSE [live EXCEPT !.remaining = remaining, !.hold_secs = hold_secs]

\* a tick with both clock reads inside the position's window
Tick ==
    /\ live.pos.open
    /\ live.wall = "current"
    /\ live.pos.sell_attempts < MaxSellAttempts
    /\ \E remaining \in RemainingSamples, hold_secs \in HoldSamples,
          pct_change \in PctSamples, status \in OrderStatuses, posted \in BOOLEAN :
          /\ remaining <= live.remaining
          /\ hold_secs >= live.hold_secs
          /\ live' = ExitLogic(remaining, hold_secs, pct_change, status, posted)
    /\ UNCHANGED <<coreVars, buy, orch, others>>

\* a tick whose current_slug read falls in the last second of the position's
\* window and whose time_remaining_in_current read falls in the next window
TickAcrossBoundary ==
    /\ live.pos.open
    /\ live.wall = "current"
    /\ live.pos.sell_attempts < MaxSellAttempts
    /\ \E hold_secs \in HoldSamples,
          pct_change \in PctSamples, status \in OrderStatuses, posted \in BOOLEAN :
          /\ hold_secs >= live.hold_secs
          /\ live' = [ExitLogic(INTERVAL, hold_secs, pct_change, status, posted)
                          EXCEPT !.wall = "next"]
    /\ UNCHANGED <<coreVars, buy, orch, others>>

\* the first tick that reads the next window's slug: the position is written off
TickNextWindow ==
    /\ live.pos.open
    /\ live' = [live EXCEPT !.wall = "next", !.pos.open = FALSE, !.outcome = "expired"]
    /\ UNCHANGED <<coreVars, buy, orch, others>>

NextLive ==
    \/ Tick
    \/ TickAcrossBoundary
    \/ TickNextWindow

\* the engine untouched, the live trader right after try_market_buy returned true
InitOpened ==
    /\ portfolio = Portfolio(StartingCapital)
    /\ killed = FALSE
    /\ size_reduction_active = FALSE
    /\ size_multiplier = RInt(1)
    /\ fills = 0
    /\ eval = EvalIdle
    /\ sent = "none"
    /\ buy = BuyIdle(LiveCapital, <<>>)
    /\ live \in LiveOpened
    /\ orch = OrchIdle
    /\ OthersIdle

SpecLive == InitOpened /\ [][NextLive]_vars

\* ------------------------------------------------------------------------
\* main.rs evaluation loop: orch.evaluate on the Position Manager's capital,
\* between BUY fills of the user stream. evaluate is synchronous: no fill is
\* recorded between the call and its return.
\* ------------------------------------------------------------------------
OrchFill ==
    /\ ~orch.called
    /\ \E f \in FillEvents : f.side = "Buy" /\ RecordFillOf(f)

OrchEvaluate ==
    /\ ~orch.called
    /\ \E i \in OrchInputs :
          LET in == OrchCall(i)
          IN  orch' = [called |-> TRUE, in |-> in,
                       phase |-> lifecycle_phase(in.market),
                       capital_for_market |->
                           capital_for_market(in.market, in.available_capital),
                       orders |-> evaluate(in)]
    /\ sent' = "none"
    /\ UNCHANGED <<portfolio, killed, size_reduction_active, size_multiplier, fills, eval>>
    /\ UNCHANGED <<buy, live, others>>

\* the loop takes the intents and goes on to the next market
OrchReturn ==
    /\ orch.called
    /\ orch' = OrchIdle
    /\ sent' = "none"
    /\ UNCHANGED <<portfolio, killed, size_reduction_active, size_multiplier, fills, eval>>
    /\ UNCHANGED <<buy, live, others>>

NextOrch ==
    \/ OrchFill
    \/ OrchEvaluate
    \/ OrchReturn

\* the engine started on the default test capital or on a small account
InitOrch ==
    /\ \E c \in {StartingCapital, TestCapital * Dollar} : portfolio = Portfolio(c)
    /\ killed = FALSE
    /\ size_reduction_active = FALSE
    /\ size_multiplier = RInt(1)
    /\ fills = 0
    /\ eval = EvalIdle
    /\ sent = "none"
    /\ buy = BuyIdle(LiveCapital, <<>>)
    /\ live = LiveFlat
    /\ orch = OrchIdle
    /\ OthersIdle

SpecOrch == InitOrch /\ [][NextOrch]_vars

\* ------------------------------------------------------------------------
\* main.rs evaluation loop: price updates against the throttle and the kill
\* switch. `started` lists, per asset, the instants at which an evaluation of
\* the asset's markets began.
\* ------------------------------------------------------------------------
ThrottleFrame ==
    /\ sent' = "none"
    /\ UNCHANGED <<portfolio, killed, size_reduction_active, size_multiplier, fills, eval>>
    /\ UNCHANGED <<buy, live, orch, bookfeed, pm, shutdown, streams, discovery, ctl, tracker, scanner, boot, fillpath, refprice, gateway, chain, resolver>>

\* time passes between two receives (or while an iteration awaits)
ClockAdvance ==
    /\ \E dt \in ClockSteps :
          /\ throttle.now + dt <= MaxClock
          /\ throttle' = [throttle EXCEPT !.now = @ + dt, !.last = "none"]
    /\ ThrottleFrame

\* price_rx.recv() yields a price of the asset
PriceUpdate ==
    /\ \E asset \in Assets :
          LET now == throttle.now
          IN  IF in_cooldown(throttle.last_eval, asset, now)
              THEN throttle' = [throttle EXCEPT !.last = "throttled"]
              ELSE IF killed
              THEN throttle' = [throttle EXCEPT !.last_eval[asset] = now,
                                                !.last = "killed"]
              ELSE throttle' = [throttle EXCEPT !.last_eval[asset] = now,
                                                !.started[asset] = Append(@, now),
                                                !.last = "evaluated"]
    /\ ThrottleFrame

\* price_rx.recv() reports that the receiver lagged: the update is skipped
PriceLagged ==
    /\ throttle' = [throttle EXCEPT !.last = "lagged"]
    /\ ThrottleFrame

NextThrottle ==
    \/ ClockAdvance
    \/ PriceUpdate
    \/ PriceLagged
    \/ Kill
    \/ ResetKill

SpecThrottle == Init /\ [][NextThrottle]_vars

\* ------------------------------------------------------------------------
\* feeds/polymarket.rs: the exchange's book of one token, the WebSocket
\* updates in flight, a REST answer in flight, and the cached book.
\* ------------------------------------------------------------------------
BookFeedFrame ==
    /\ sent' = "none"
    /\ UNCHANGED <<portfolio, killed, size_reduction_active, size_multiplier, fills, eval>>
    /\ UNCHANGED <<buy, live, orch, throttle, pm, shutdown, streams, discovery, ctl, tracker, scanner, boot, fillpath, refprice, gateway, chain, resolver>>

\* the exchange changes one level of its book, which stays uncrossed, and
\* sends the change on the WebSocket
ExchangeChange ==
    /\ Len(bookfeed.wire) < MaxWire
    /\ \E update \in ExchangeUpdates :
          LET book == apply_update(bookfeed.exchange, update)
          IN  /\ book # bookfeed.exchange
              /\ uncrossed(book)
              /\ bookfeed' = [bookfeed EXCEPT !.exchange = book,
                                              !.wire = Append(@, update)]
    /\ BookFeedFrame

\* handle_ws_message: the oldest update is applied if the token has a book
WsMessage ==
    /\ bookfeed.wire # <<>>
    /\ bookfeed' =
          [bookfeed EXCEPT
             !.wire = Tail(@),
             !.cache = IF @.some
                       THEN [some |-> TRUE,
                             book |-> apply_update(@.book, Head(bookfeed.wire))]
                       ELSE @]
    /\ BookFeedFrame

\* discovery pre-fetch or book refresh: the REST server answers with the
\* exchange's book of this moment
BookFetch ==
    /\ ~bookfeed.rest.some
    /\ bookfeed' = [bookfeed EXCEPT
                      !.rest = [some |-> TRUE,
                                book |-> fetch_book_static(bookfeed.exchange)]]
    /\ BookFeedFrame

\* books.insert(token_id, book) with the answer received
BookInsert ==
    /\ bookfeed.rest.some
    /\ bookfeed' = [bookfeed EXCEPT
                      !.cache = [some |-> TRUE, book |-> bookfeed.rest.book],
                      !.rest = [some |-> FALSE, book |-> EmptyBook]]
    /\ BookFeedFrame

NextBookFeed ==
    \/ ExchangeChange
    \/ WsMessage
    \/ BookFetch
    \/ BookInsert

SpecBookFeed == Init /\ [][NextBookFeed]_vars

\* ------------------------------------------------------------------------
\* risk/position_manager.rs: concurrent callers of the mutating methods and a
\* reader. `serial` is the run of the calls one after the other in the order
\* in which they got the write guard.
\* ------------------------------------------------------------------------
PmFrame ==
    /\ sent' = "none"
    /\ UNCHANGED <<killed, size_reduction_active, size_multiplier, fills, eval>>
    /\ UNCHANGED <<buy, live, orch, throttle, bookfeed, shutdown, streams, discovery, ctl, tracker, scanner, boot, fillpath, refprice, gateway, chain, resolver>>

\* a task calls a method and waits at self.portfolio.write().await
PmCall ==
    /\ \E t \in Writers :
          /\ pm.tasks[t].pc = "idle"
          /\ \E call \in WriterCalls(t) :
                pm' = [pm EXCEPT !.tasks[t].pc = "waiting", !.tasks[t].call = call]
    /\ UNCHANGED portfolio
    /\ PmFrame

\* the write guard is granted
PmAcquire ==
    /\ pm.guard = "free"
    /\ \E t \in Writers :
          /\ pm.tasks[t].pc = "waiting"
          /\ pm' = [pm EXCEPT
                      !.guard = t,
                      !.tasks[t].pc = "first",
                      !.tasks[t].result = call_result(pm.tasks[t].call, portfolio),
                      !.serial = Append(@, call_result(pm.tasks[t].call,
                                                      pm.serial[Len(pm.serial)]))]
    /\ UNCHANGED portfolio
    /\ PmFrame

\* the method's first writes, in place
PmFirstWrites ==
    /\ \E t \in Writers :
          /\ pm.tasks[t].pc = "first"
          /\ pm.guard = t
          /\ portfolio' = first_writes(pm.tasks[t].result, portfolio)
          /\ pm' = [pm EXCEPT
                      !.tasks[t].pc = "last",
                      !.guard = IF write_guard_scope(pm.tasks[t].call) = "function"
                                THEN t ELSE "free"]
    /\ PmFrame

\* the method's remaining writes, and its return: the guard is dropped
PmLastWrites ==
    /\ \E t \in Writers :
          /\ pm.tasks[t].pc = "last"
          /\ pm.guard = IF write_guard_scope(pm.tasks[t].call) = "function"
                        THEN t ELSE "free"
          /\ portfolio' = last_writes(pm.tasks[t].result, portfolio)
          /\ pm' = [pm EXCEPT !.tasks[t].pc = "done", !.guard = "free"]
    /\ PmFrame

\* a reader (check_order, periodic_check, available_capital, ...) takes the
\* read guard and looks at the portfolio
PmRead ==
    /\ pm.guard = "free"
    /\ pm' = [pm EXCEPT !.seen = [some |-> TRUE, value |-> portfolio]]
    /\ UNCHANGED portfolio
    /\ PmFrame

NextPm ==
    \/ PmCall
    \/ PmAcquire
    \/ PmFirstWrites
    \/ PmLastWrites
    \/ PmRead

SpecPm == Init /\ [][NextPm]_vars

\* ------------------------------------------------------------------------
\* Shutdown of the engine (main.rs) and of the live trader
\* (bin/live_trade.rs). `events` lists the cancel-all requests sent to the
\* gateway and the publications of the shutdown signal, in order.
\* ------------------------------------------------------------------------
ShutdownFrame ==
    /\ sent' = "none"
    /\ UNCHANGED <<portfolio, killed, size_reduction_active, size_multiplier, fills, eval>>
    /\ UNCHANGED <<buy, live, orch, throttle, bookfeed, pm, streams, discovery, ctl, tracker, scanner, boot, fillpath, refprice, gateway, chain, resolver>>

\* an order is left resting on the book: by the evaluation task of the engine
\* while it runs, by the live trader's own loop until the flag is seen
PlaceResting ==
    /\ shutdown.resting < MaxResting
    /\ shutdown.pc # "exited"
    /\ \/ shutdown.binary # "live_trade" /\ "evaluation" \in shutdown.tasks
       \/ shutdown.binary # "main" /\ shutdown.pc = "running"
    /\ shutdown' = [shutdown EXCEPT !.resting = @ + 1]
    /\ ShutdownFrame

\* main.rs: tokio::signal::ctrl_c() returns
MainCtrlC ==
    /\ shutdown.binary = "none"
    /\ shutdown' = [shutdown EXCEPT !.binary = "main", !.pc = "ctrl_c"]
    /\ ShutdownFrame

\* main.rs: shutdown_tx.send(())
MainSendShutdown ==
    /\ shutdown.binary = "main"
    /\ shutdown.pc = "ctrl_c"
    /\ shutdown' = [shutdown EXCEPT !.pc = "signalled",
                                     !.events = Append(@, "shutdown_signal")]
    /\ ShutdownFrame

\* main.rs: batch_submitter.cancel_all().await, which may fail
MainCancelAll ==
    /\ shutdown.binary = "main"
    /\ shutdown.pc = "signalled"
    /\ \E ok \in BOOLEAN :
          shutdown' = [shutdown EXCEPT !.pc = "cancelled",
                                       !.events = Append(@, "cancel_all"),
                                       !.resting = IF ok THEN 0 ELSE @]
    /\ ShutdownFrame

\* bin/live_trade.rs: the ctrl-c handler sets shutdown_flag and the loop sees it
LiveCtrlC ==
    /\ shutdown.binary = "none"
    /\ shutdown' = [shutdown EXCEPT !.binary = "live_trade", !.pc = "flagged"]
    /\ ShutdownFrame

\* bin/live_trade.rs: clob_client.cancel_all().await, which may fail
LiveCancelAll ==
    /\ shutdown.binary = "live_trade"
    /\ shutdown.pc = "flagged"
    /\ \E ok \in BOOLEAN :
          shutdown' = [shutdown EXCEPT !.pc = "cancelled",
                                       !.events = Append(@, "cancel_all"),
                                       !.resting = IF ok THEN 0 ELSE @]
    /\ ShutdownFrame

\* bin/live_trade.rs: shutdown_tx.send(()), then break
LiveSendShutdown ==
    /\ shutdown.binary = "live_trade"
    /\ shutdown.pc = "cancelled"
    /\ shutdown' = [shutdown EXCEPT !.pc = "signalled",
                                     !.events = Append(@, "shutdown_signal")]
    /\ ShutdownFrame

\* a background task receives the signal in its select! and breaks
TaskStops ==
    /\ \E i \in 1..Len(shutdown.events) : shutdown.events[i] = "shutdown_signal"
    /\ \E t \in shutdown.tasks :
          shutdown' = [shutdown EXCEPT !.tasks = @ \ {t}]
    /\ ShutdownFrame

\* the process returns from main; the runtime drops what still runs
ProcessExit ==
    /\ \/ shutdown.binary = "main" /\ shutdown.pc = "cancelled"
       \/ shutdown.binary = "live_trade" /\ shutdown.pc = "signalled"
    /\ shutdown' = [shutdown EXCEPT !.pc = "exited", !.tasks = {}]
    /\ ShutdownFrame

NextShutdown ==
    \/ PlaceResting
    \/ MainCtrlC
    \/ MainSendShutdown
    \/ MainCancelAll
    \/ LiveCtrlC
    \/ LiveCancelAll
    \/ LiveSendShutdown
    \/ TaskStops
    \/ ProcessExit

SpecShutdown == Init /\ [][NextShutdown]_vars

\* ------------------------------------------------------------------------
\* The reconnect loops of the three streams
\* ------------------------------------------------------------------------
StreamFrame ==
    /\ sent' = "none"
    /\ UNCHANGED <<portfolio, killed, size_reduction_active, size_multiplier, fills, eval>>
    /\ UNCHANGED <<buy, live, orch, throttle, bookfeed, pm, shutdown, discovery, ctl, tracker, scanner, boot, fillpath, refprice, gateway, chain, resolver>>

\* connect_async returns Ok: the backoff is reset and the read loop starts
ConnectOk(s) ==
    /\ streams[s].pc = "connecting"
    /\ streams' = [streams EXCEPT ![s] =
            [pc |-> "connected", backoff_ms |-> initial_backoff(s), lapses |-> 0, delays |-> <<>>]]
    /\ StreamFrame

\* connect_async returns Err: fall through to the sleep
ConnectFail(s) ==
    /\ streams[s].pc = "connecting"
    /\ streams[s].lapses < MaxLapses
    /\ streams' = [streams EXCEPT ![s].pc = "sleeping", ![s].lapses = @ + 1]
    /\ StreamFrame

\* feeds/user_ws.rs: the subscribe message cannot be sent: `continue`
SubscribeFail ==
    /\ streams["user_ws"].pc = "connected"
    /\ streams["user_ws"].lapses = 0
    /\ streams' = [streams EXCEPT !["user_ws"].pc = "connecting", !["user_ws"].lapses = 1]
    /\ StreamFrame

\* the read loop sees an error or the end of the stream: break
Disconnect(s) ==
    /\ streams[s].pc = "connected"
    /\ streams' = [streams EXCEPT ![s].pc = "sleeping", ![s].lapses = @ + 1]
    /\ StreamFrame

\* sleep(backoff_ms) returns, the backoff doubles up to the cap, loop again
SleepDone(s) ==
    /\ streams[s].pc = "sleeping"
    /\ streams' = [streams EXCEPT ![s].pc = "connecting",
                                   ![s].delays = Append(@, streams[s].backoff_ms),
                                   ![s].backoff_ms = next_backoff(@)]
    /\ StreamFrame

\* the shutdown branch of a select!: the two feeds poll it while connecting
\* and reading, the user stream while reading and sleeping
StreamShutdown(s) ==
    /\ IF s = "user_ws"
          THEN streams[s].pc \in {"connected", "sleeping"}
          ELSE streams[s].pc \in {"connecting", "connected"}
    /\ streams' = [streams EXCEPT ![s].pc = "stopped"]
    /\ StreamFrame

NextStreams ==
    \/ \E s \in Streams : ConnectOk(s)
    \/ \E s \in Streams : ConnectFail(s)
    \/ SubscribeFail
    \/ \E s \in Streams : Disconnect(s)
    \/ \E s \in Streams : SleepDone(s)
    \/ \E s \in Streams : StreamShutdown(s)

SpecStreams == Init /\ [][NextStreams]_vars

\* ------------------------------------------------------------------------
\* The market discovery loop
\* ------------------------------------------------------------------------
DiscoveryFrame ==
    /\ sent' = "none"
    /\ UNCHANGED <<portfolio, killed, size_reduction_active, size_multiplier, fills, eval>>
    /\ UNCHANGED <<buy, live, orch, throttle, bookfeed, pm, shutdown, streams, ctl, tracker, scanner, boot, fillpath, refprice, gateway, chain, resolver>>

\* time passes
DiscoveryClock ==
    /\ \E step \in DiscoverySteps :
          /\ discovery.now + step <= MaxDiscoveryClock
          /\ discovery' = [discovery EXCEPT !.now = @ + step]
    /\ DiscoveryFrame

\* interval.tick(): the current and the next slug, then the sweep
DiscoveryTick ==
    /\ \E o1, o2 \in ResolveOutcomes : \E y1, n1, y2, n2 \in BOOLEAN :
          LET slugs == upcoming_slugs(discovery.now)
              d1 == discover_slug(discovery, slugs[1], o1, y1, n1)
              d2 == discover_slug(d1, slugs[2], o2, y2, n2)
          IN  discovery' = sweep_expired(d2)
    /\ DiscoveryFrame

NextDiscovery ==
    \/ DiscoveryClock
    \/ DiscoveryTick

SpecDiscovery == Init /\ [][NextDiscovery]_vars

\* ------------------------------------------------------------------------
\* bin/live_trade.rs: the exit controller, await by await, and the exchange
\* ------------------------------------------------------------------------
CtlFrame ==
    /\ sent' = "none"
    /\ UNCHANGED <<portfolio, killed, size_reduction_active, size_multiplier, fills, eval>>
    /\ UNCHANGED <<buy, live, orch, throttle, bookfeed, pm, shutdown, streams, discovery, tracker, scanner, boot, fillpath, refprice, gateway, chain, resolver>>

\* try_market_buy once the buy is confirmed: the spend leaves the capital, the
\* take-profit sell is posted (placed or not), the position is pushed
CtlEntry ==
    /\ ctl.pc = "idle"
    /\ ~ctl.held
    /\ ctl.opened < MaxOpened
    /\ \E remaining \in RemainingSamples, placed \in BOOLEAN :
          LET tp == tp_price_of(EntryFill.price)
              spend == EntryFill.price * EntryFill.shares
              order == [pos |-> ctl.opened + 1, type |-> "tp", price |-> tp, status |-> "LIVE"]
          IN  /\ remaining > 60
              /\ ctl' = [ctl EXCEPT
                    !.capital = @ - spend,
                    !.held = TRUE,
                    !.opened = @ + 1,
                    !.remaining = remaining,
                    !.sold = FALSE,
                    !.seen = "none",
                    !.orders = IF placed THEN <<order>> ELSE <<>>,
                    !.posts = <<[pos |-> ctl.opened + 1, type |-> "tp", price |-> tp,
                                 outcome |-> IF placed THEN "accepted" ELSE "rejected"]>>,
                    !.pos = [id |-> ctl.opened + 1, entry_price |-> EntryFill.price,
                             size |-> EntryFill.shares, cost_basis |-> spend, tp_price |-> tp,
                             opened_remaining |-> remaining,
                             sell_order_id |-> placed,
                             oid |-> IF placed THEN 1 ELSE 0,
                             sell_order_price |-> tp, sell_order_type |-> "tp",
                             sell_attempts |-> IF placed THEN 1 ELSE 0]]
    /\ CtlFrame

\* the exchange matches a resting sell order of the position in full
ExchangeMatch ==
    /\ ~ctl.sold
    /\ \E k \in 1..Len(ctl.orders) :
          /\ ctl.orders[k].status = "LIVE"
          /\ ctl' = [ctl EXCEPT !.orders[k].status = "MATCHED", !.sold = TRUE]
    /\ CtlFrame

\* steps 1 to 3 of a tick: get_order on the resting sell; MATCHED books the
\* sale and removes the position; otherwise the desired type is computed and
\* an order that has to be replaced is cancelled
CtlCheck ==
    /\ ctl.pc = "idle"
    /\ ctl.held
    /\ \E remaining \in RemainingSamples, current_bid \in BidSamples, answered \in BOOLEAN :
          LET pos == ctl.pos
              status == IF ~pos.sell_order_id THEN "none"
                        ELSE IF answered THEN ctl.orders[pos.oid].status ELSE "ERR"
              hold_secs == pos.opened_remaining - remaining
              desired == desired_type(remaining, hold_secs, pct_change_of(pos, current_bid))
              proceeds == sale_proceeds(pos)
          IN  /\ remaining <= ctl.remaining
              /\ status # "MATCHED" /\ needs_replacement(pos, desired)
                    => Len(ctl.posts) < MaxSellPosts
              /\ ctl' =
                    IF status = "MATCHED" THEN
                        [ctl EXCEPT !.remaining = remaining,
                                    !.seen = status,
                                    !.capital = @ + proceeds,
                                    !.exits = @ + 1,
                                    !.total_exit_pnl = @ + (proceeds - pos.cost_basis),
                                    !.booked = Append(@, pos.id),
                                    !.held = FALSE]
                    ELSE IF ~needs_replacement(pos, desired) THEN
                        [ctl EXCEPT !.remaining = remaining, !.seen = status]
                    ELSE [ctl EXCEPT !.remaining = remaining, !.seen = status,
                                     !.bid = current_bid,
                                     !.desired = desired,
                                     !.pc = IF pos.sell_order_id THEN "cancel" ELSE "post"]
    /\ CtlFrame

\* cancel_order on the order to replace, its result ignored; the id is forgotten
CtlCancel ==
    /\ ctl.pc = "cancel"
    /\ ctl' = [ctl EXCEPT
          !.orders[ctl.pos.oid].status = IF @ = "LIVE" THEN "CANCELLED" ELSE @,
          !.pos.sell_order_id = FALSE,
          !.pc = "post"]
    /\ CtlFrame

\* step 4: the sell of the desired type is built and posted; the exchange
\* refuses a sell of shares it has already sold
CtlPost ==
    /\ ctl.pc = "post"
    /\ \E outcome \in {"accepted", "rejected", "error"} :
          LET pos == ctl.pos
              price == desired_price(pos, ctl.desired, ctl.bid)
              order == [pos |-> pos.id, type |-> ctl.desired, price |-> price, status |-> "LIVE"]
          IN  /\ ctl.sold => outcome # "accepted"
              /\ ctl' = [ctl EXCEPT
                    !.pc = "idle",
                    !.bid = EntryFill.price,
                    !.desired = "tp",
                    !.posts = Append(@, [pos |-> pos.id, type |-> ctl.desired, price |-> price,
                                         outcome |-> outcome]),
                    !.orders = IF outcome = "accepted" THEN Append(@, order) ELSE @,
                    !.pos = IF outcome = "accepted"
                            THEN [pos EXCEPT !.sell_order_id = TRUE,
                                             !.oid = Len(ctl.orders) + 1,
                                             !.sell_order_price = price,
                                             !.sell_order_type = ctl.desired,
                                             !.sell_attempts = @ + 1]
                            ELSE [pos EXCEPT !.sell_attempts = @ + 1]]
    /\ CtlFrame

\* the first tick of the next window: cancel_all, the position is written off
\* at its full cost and removed; the capital is not touched
CtlExpire ==
    /\ ctl.pc = "idle"
    /\ ctl.held
    /\ ctl' = [ctl EXCEPT
          !.held = FALSE,
          !.expired = Append(@, ctl.pos.id),
          !.orders = [k \in 1..Len(ctl.orders) |->
                        IF ctl.orders[k].status = "LIVE"
                        THEN [ctl.orders[k] EXCEPT !.status = "CANCELLED"]
                        ELSE ctl.orders[k]]]
    /\ CtlFrame

NextCtl ==
    \/ CtlEntry
    \/ ExchangeMatch
    \/ CtlCheck
    \/ CtlCancel
    \/ CtlPost
    \/ CtlExpire

SpecCtl == Init /\ [][NextCtl]_vars

\* ------------------------------------------------------------------------
\* The fill tracker: orders watched by the evaluation loop, fills from the
\* fill consumer, the resolution tracker's sweep
\* ------------------------------------------------------------------------
TrackerFrame ==
    /\ sent' = "none"
    /\ UNCHANGED <<portfolio, killed, size_reduction_active, size_multiplier, fills, eval>>
    /\ UNCHANGED <<buy, live, orch, throttle, bookfeed, pm, shutdown, streams, discovery, ctl, scanner, boot, fillpath, refprice, gateway, chain, resolver>>

\* main.rs evaluation loop: a submitted order succeeds and is watched
TrackerWatch ==
    /\ Len(tracker.exchange) < MaxTracked
    /\ \E side \in OrderSides, size \in TrackedSizes :
          LET oid == Len(tracker.exchange) + 1
          IN  tracker' = [watch(tracker, post_order_result(oid, side, size))
                            EXCEPT !.exchange = Append(@, [side |-> side, size |-> size,
                                                           unfilled |-> size])]
    /\ TrackerFrame

\* the exchange fills part or all of an order; main.rs fill consumer: on_fill
TrackerOnFill ==
    /\ \E oid \in 1..Len(tracker.exchange) : \E size \in 1..tracker.exchange[oid].unfilled :
          LET fill == [order_id |-> oid, size |-> size]
          IN  tracker' = [on_fill(tracker, fill)
                            EXCEPT !.exchange[oid].unfilled = @ - size,
                                   !.last = fill]
    /\ TrackerFrame

\* main.rs resolution tracker: a tick; cleanup_completed runs when the
\* current interval has no time left (the position and market lookups
\* taken as passing)
ResolutionTick ==
    /\ \E step \in TrackerSteps :
          /\ tracker.now + step <= MaxTrackerClock
          /\ LET now == tracker.now + step
                  remaining == time_remaining_in_current(now)
                  swept == IF remaining <= 0 THEN cleanup_completed(tracker) ELSE tracker
              IN  tracker' = [swept EXCEPT !.now = now]
    /\ TrackerFrame

NextTracker ==
    \/ TrackerWatch
    \/ TrackerOnFill
    \/ ResolutionTick

SpecTracker == Init /\ [][NextTracker]_vars

\* ------------------------------------------------------------------------
\* ArbScanner::scan called on a pair of books
\* ------------------------------------------------------------------------
ScannerFrame ==
    /\ sent' = "none"
    /\ UNCHANGED <<portfolio, killed, size_reduction_active, size_multiplier, fills, eval>>
    /\ UNCHANGED <<buy, live, orch, throttle, bookfeed, pm, shutdown, streams, discovery, ctl, tracker, boot, fillpath, refprice, gateway, chain, resolver>>

ScanCall ==
    /\ ~scanner.called
    /\ \E yes_book \in ScanYesBooks, no_book \in ScanNoBooks, vol_regime \in VolRegimes :
          scanner' = [called |-> TRUE, yes_book |-> yes_book, no_book |-> no_book,
                      vol_regime |-> vol_regime, min_profit |-> arb_min_expected_profit,
                      signal |-> scan(yes_book, no_book, vol_regime, arb_min_expected_profit)]
    /\ ScannerFrame

ScanReturn ==
    /\ scanner.called
    /\ scanner' = ScannerIdle
    /\ ScannerFrame

NextScanner ==
    \/ ScanCall
    \/ ScanReturn

SpecScanner == Init /\ [][NextScanner]_vars

\* ------------------------------------------------------------------------
\* start-up of the bot (main.rs) and of the live trader (bin/live_trade.rs)
\* ------------------------------------------------------------------------
BootFrame ==
    /\ sent' = "none"
    /\ UNCHANGED <<portfolio, killed, size_reduction_active, size_multiplier, fills, eval>>
    /\ UNCHANGED <<buy, live, orch, throttle, bookfeed, pm, shutdown, streams, discovery, ctl, tracker, scanner, fillpath, refprice, gateway, chain, resolver>>

\* Config::load_or_default() on the environment the process was started in
BootLoad ==
    /\ boot.pc = "start"
    /\ \E binary \in Binaries, key \in KeySettings, dry \in DryRunSettings :
          LET env == [POLYMARKET_PRIVATE_KEY |-> key, DRY_RUN |-> dry]
          IN  boot' = [boot EXCEPT !.pc = "loaded", !.binary = binary, !.env = env,
                                   !.config = load_or_default(env)]
    /\ BootFrame

\* main.rs: an Err from validate() is logged and the start-up goes on
MainValidate ==
    /\ boot.pc = "loaded"
    /\ boot.binary = "main"
    /\ boot' = [boot EXCEPT !.pc = "init", !.validation = validate(boot.config, boot.env)]
    /\ BootFrame

\* bin/live_trade.rs: no validate(); is_dry_run() ends the process with code 1
LiveCheckKey ==
    /\ boot.pc = "loaded"
    /\ boot.binary = "live_trade"
    /\ boot' = IF is_dry_run(boot.config, boot.env)
               THEN [boot EXCEPT !.pc = "exited", !.exit_code = <<1>>]
               ELSE [boot EXCEPT !.pc = "init"]
    /\ BootFrame

BuildSigner ==
    /\ boot.pc = "init"
    /\ boot' = [boot EXCEPT !.pc = "auth", !.signer = signer_of(boot.config)]
    /\ BootFrame

\* init_auth(): main.rs falls back to L1 auth on an error, the live trader
\* returns the error from main
InitAuth ==
    /\ boot.pc = "auth"
    /\ \E ok \in BOOLEAN :
          boot' = IF ok THEN [boot EXCEPT !.pc = IF boot.binary = "main" THEN "feeds" ELSE "balance",
                                          !.l2_auth = TRUE]
                  ELSE IF boot.binary = "main" THEN [boot EXCEPT !.pc = "feeds"]
                  ELSE [boot EXCEPT !.pc = "exited", !.exit_code = <<1>>]
    /\ BootFrame

\* the live trader's starting balance, in whole dollars; a balance that could
\* not be fetched is replaced by Config::starting_capital()
LiveFetchBalance ==
    /\ boot.pc = "balance"
    /\ \E starting_capital \in {0, 1, StartingCapital} :
          boot' = IF starting_capital < 1
                  THEN [boot EXCEPT !.pc = "exited", !.exit_code = <<1>>]
                  ELSE [boot EXCEPT !.pc = "feeds"]
    /\ BootFrame

StartFeeds ==
    /\ boot.pc = "feeds"
    /\ boot' = [boot EXCEPT !.pc = "running",
                            !.feeds = IF boot.binary = "main" THEN main_feeds ELSE live_trade_feeds]
    /\ BootFrame

SubmitOrder ==
    /\ boot.pc = "running"
    /\ boot.orders < MaxBootOrders
    /\ boot' = [boot EXCEPT !.orders = @ + 1]
    /\ BootFrame

BootCtrlC ==
    /\ boot.pc = "running"
    /\ boot' = [boot EXCEPT !.pc = "exited", !.exit_code = <<0>>]
    /\ BootFrame

NextBoot ==
    \/ BootLoad
    \/ MainValidate
    \/ LiveCheckKey
    \/ BuildSigner
    \/ InitAuth
    \/ LiveFetchBalance
    \/ StartFeeds
    \/ SubmitOrder
    \/ BootCtrlC

SpecBoot == Init /\ [][NextBoot]_vars

\* ------------------------------------------------------------------------
\* from an execution at the gateway to record_fill
\* ------------------------------------------------------------------------
FillPathFrame ==
    /\ sent' = "none"
    /\ UNCHANGED <<killed, size_reduction_active, size_multiplier, fills, eval>>
    /\ UNCHANGED <<buy, live, orch, throttle, bookfeed, pm, shutdown, streams, discovery, ctl, tracker, scanner, boot, refprice, gateway, chain, resolver>>

\* the evaluation loop submits an order; the gateway accepts it. The result's
\* filled_size decides whether the loop records a fill itself.
LoopSubmit ==
    /\ Len(fillpath.orders) < MaxExecutions
    /\ \E order_type \in {"FOK", "GTC"} :
          LET oid == Len(fillpath.orders) + 1
              result == post_order_result(oid, "Buy", 1)
              fill == [order_id |-> oid, token_id |-> token_of("m1", "Yes"), side |-> "Buy",
                       price |-> 1, size |-> result.filled_size, fee |-> 0]
          IN  /\ fillpath' = [fillpath EXCEPT
                    !.orders = Append(@, [order_type |-> order_type, result |-> result]),
                    !.recorded = IF result.filled_size > 0
                                 THEN Append(@, [order_id |-> oid, via |-> "submit"]) ELSE @]
              /\ portfolio' = IF result.filled_size > 0
                              THEN record_fill(portfolio, fill, "m1", "Yes") ELSE portfolio
    /\ FillPathFrame

\* the gateway executes an accepted order and reports it on the user stream
GatewayExecutes ==
    /\ \E oid \in DOMAIN fillpath.orders \ fillpath.executed, market \in {"m1", ""} :
          fillpath' = [fillpath EXCEPT !.executed = @ \cup {oid},
                                       !.wire = Append(@, trade_message(oid, market))]
    /\ UNCHANGED portfolio
    /\ FillPathFrame

GatewaySendsOther ==
    /\ fillpath.wire = <<>>
    /\ Len(fillpath.orders) < MaxExecutions
    /\ \E msg \in OtherMessages : fillpath' = [fillpath EXCEPT !.wire = Append(@, msg)]
    /\ UNCHANGED portfolio
    /\ FillPathFrame

\* the stream task reads one message and hands it to handle_message
StreamHandles ==
    /\ fillpath.wire # <<>>
    /\ LET event == handle_message(Head(fillpath.wire))
       IN  fillpath' = [fillpath EXCEPT
                !.wire = Tail(@),
                !.channel = IF event.some THEN broadcast_send(@, event) ELSE @]
    /\ UNCHANGED portfolio
    /\ FillPathFrame

\* the fill consumer's fill_rx.recv() and what it does with the answer
ConsumerRecv ==
    /\ fillpath.channel.missed > 0 \/ fillpath.channel.queue # <<>>
    /\ IF fillpath.channel.missed > 0
       THEN /\ fillpath' = [fillpath EXCEPT !.lagged = @ + fillpath.channel.missed,
                                            !.channel.missed = 0]
            /\ UNCHANGED portfolio
       ELSE LET event == Head(fillpath.channel.queue)
                fill == fill_of_event(event)
                has_market == event.market_id # ""
            IN  /\ fillpath' = [fillpath EXCEPT
                      !.channel.queue = Tail(@),
                      !.tracked = Append(@, event.order_id),
                      !.recorded = IF has_market
                                   THEN Append(@, [order_id |-> event.order_id, via |-> "stream"])
                                   ELSE @,
                      !.pnl_fills = Append(@, event.order_id)]
                /\ portfolio' = IF has_market
                                THEN record_fill(portfolio, fill, event.market_id, event.market_side)
                                ELSE portfolio
    /\ FillPathFrame

NextFillPath ==
    \/ LoopSubmit
    \/ GatewayExecutes
    \/ GatewaySendsOther
    \/ StreamHandles
    \/ ConsumerRecv

SpecFillPath == Init /\ [][NextFillPath]_vars

\* ------------------------------------------------------------------------
\* the reference price from the first feed price to the resolution
\* ------------------------------------------------------------------------
RefPriceFrame ==
    /\ sent' = "none"
    /\ UNCHANGED <<portfolio, killed, size_reduction_active, size_multiplier, fills, eval>>
    /\ UNCHANGED <<buy, live, orch, throttle, bookfeed, pm, shutdown, streams, discovery, ctl, tracker, scanner, boot, fillpath, gateway, chain, resolver>>

\* the discovery loop puts the market in the cache
CacheMarket ==
    /\ ~refprice.cache.some
    /\ refprice' = [refprice EXCEPT !.cache = [some |-> TRUE, market |-> new_market]]
    /\ RefPriceFrame

\* one price of the reference feed in the evaluation loop: the market is
\* taken from the cache, its reference price set, the strategies evaluated
\* on it. first_price remembers the first price seen for the cached market.
EvaluateOnPrice ==
    /\ Len(refprice.evaluations) < MaxEvaluations
    /\ \E binance_price \in FeedPrices, step \in RefSteps :
          /\ refprice.now + step <= MaxRefClock
          /\ LET now == refprice.now + step
                 remaining == time_remaining_in_current(now)
                 found == get_market(refprice.cache)
                 market == set_reference_price(found.market, binance_price)
             IN  refprice' =
                    IF remaining < 10 \/ ~found.some
                    THEN [refprice EXCEPT !.now = now]
                    ELSE [refprice EXCEPT
                            !.now = now,
                            !.first_price = IF @ = 0 THEN binance_price ELSE @,
                            !.evaluations = Append(@, [binance_price |-> binance_price,
                                                       reference_price |-> market.reference_price])]
    /\ RefPriceFrame

\* one tick of the resolution tracker at a feed price
ResolutionCheck ==
    /\ \E current_price \in FeedPrices, step \in RefSteps :
          /\ refprice.now + step <= MaxRefClock
          /\ LET now == refprice.now + step
                 remaining == time_remaining_in_current(now)
                 found == get_market(refprice.cache)
                 ref_price == found.market.reference_price
             IN  refprice' =
                    IF remaining <= 0 /\ found.some /\ ref_price # 0
                    THEN [refprice EXCEPT
                            !.now = now,
                            !.resolutions = Append(@, [ref_price |-> ref_price,
                                winning_side |-> IF current_price >= ref_price THEN "Yes" ELSE "No"])]
                    ELSE [refprice EXCEPT !.now = now]
    /\ RefPriceFrame

NextRefPrice ==
    \/ CacheMarket
    \/ EvaluateOnPrice
    \/ ResolutionCheck

SpecRefPrice == Init /\ [][NextRefPrice]_vars

\* ------------------------------------------------------------------------
\* approved orders on their way: checked, submitted, filled at the limit
\* price, with the watchdog running alongside
\* ------------------------------------------------------------------------
\* the fill the gateway reports for a resting order filled whole at its limit
limit_fill(order) ==
    [side |-> "Buy", token_id |-> token_of("m1", order.market_side),
     price |-> order.price, size |-> order.size, fee |-> 0]

\* the approved orders of the iteration go to the gateway in one batch
SubmitApproved ==
    /\ eval.pc = "checked"
    /\ eval.approved # <<>>
    /\ Len(gateway.resting) + Len(gateway.filled) + Len(eval.approved) <= MaxApproved
    /\ sent' = "orders"
    /\ eval' = EvalIdle
    /\ gateway' = [gateway EXCEPT
            !.batches = @ + 1,
            !.resting = @ \o [i \in 1..Len(eval.approved) |->
                                [order |-> eval.approved[i], batch |-> gateway.batches + 1,
                                 legs |-> Len(eval.approved)]]]
    /\ UNCHANGED <<portfolio, killed, size_reduction_active, size_multiplier, fills>>
    /\ UNCHANGED <<buy, live, orch, throttle, bookfeed, pm, shutdown, streams, discovery, ctl, tracker, scanner, boot, fillpath, refprice, chain, resolver>>

\* the gateway fills the oldest resting order; the fill consumer records it
ApprovedFill ==
    /\ gateway.resting # <<>>
    /\ LET first == Head(gateway.resting)
       IN  /\ portfolio' = record_fill(portfolio, limit_fill(first.order), "m1", first.order.market_side)
           /\ gateway' = [gateway EXCEPT !.resting = Tail(@), !.filled = Append(@, first)]
    /\ sent' = "none"
    /\ UNCHANGED <<killed, size_reduction_active, size_multiplier, fills, eval>>
    /\ UNCHANGED <<buy, live, orch, throttle, bookfeed, pm, shutdown, streams, discovery, ctl, tracker, scanner, boot, fillpath, refprice, chain, resolver>>

NextApproved ==
    \/ EvalStart
    \/ EvalCheck
    \/ EvalDrop
    \/ SubmitApproved
    \/ ApprovedFill
    \/ WatchdogTick

SpecApproved == Init /\ [][NextApproved]_vars

\* ------------------------------------------------------------------------
\* the balance sync loop next to the fill consumer
\* ------------------------------------------------------------------------
ChainFrame ==
    /\ sent' = "none"
    /\ UNCHANGED <<killed, size_reduction_active, size_multiplier, fills, eval>>
    /\ UNCHANGED <<buy, live, orch, throttle, bookfeed, pm, shutdown, streams, discovery, ctl, tracker, scanner, boot, fillpath, refprice, gateway, resolver>>

\* the exchange executes a BUY: its cost leaves the collateral at once, the
\* fill event is on its way to the fill consumer
ExecuteBuy ==
    /\ chain.executed < MaxChainBuys
    /\ \E price \in FillPrices, size \in FillSizes :
          /\ price * size <= chain.on_chain - 1
          /\ chain' = [chain EXCEPT
                !.on_chain = @ - price * size,
                !.executed = @ + 1,
                !.pending = Append(@, [side |-> "Buy", token_id |-> token_of("m1", "Yes"),
                                       price |-> price, size |-> size, fee |-> 0])]
    /\ UNCHANGED portfolio
    /\ ChainFrame

\* the balance sync loop: fetch_balance answers with the collateral of the moment
FetchBalance ==
    /\ ~chain.fetched.some
    /\ chain' = [chain EXCEPT !.fetched = [some |-> TRUE, balance |-> chain.on_chain]]
    /\ UNCHANGED portfolio
    /\ ChainFrame

\* ... and sync_capital_from_balance is called with it
ApplySync ==
    /\ chain.fetched.some
    /\ portfolio' = sync_capital_from_balance(portfolio, chain.fetched.balance)
    /\ chain' = [chain EXCEPT !.fetched = [some |-> FALSE, balance |-> 0],
                              !.history = IF Len(@) < MaxChainBuys + 1 THEN Append(@, "sync") ELSE @]
    /\ ChainFrame

\* the fill consumer records the oldest fill event
RecordPending ==
    /\ chain.pending # <<>>
    /\ portfolio' = record_fill(portfolio, Head(chain.pending), "m1", "Yes")
    /\ chain' = [chain EXCEPT !.pending = Tail(@),
                              !.history = IF Len(@) < MaxChainBuys + 1 THEN Append(@, "fill") ELSE @]
    /\ ChainFrame

NextChain ==
    \/ ExecuteBuy
    \/ FetchBalance
    \/ ApplySync
    \/ RecordPending

SpecChain == Init /\ [][NextChain]_vars

\* ------------------------------------------------------------------------
\* positions held across the close of their market, and the resolution tracker
\* ------------------------------------------------------------------------
ResolverFrame ==
    /\ sent' = "none"
    /\ UNCHANGED <<killed, size_reduction_active, size_multiplier, fills, eval>>
    /\ UNCHANGED <<buy, live, orch, throttle, bookfeed, pm, shutdown, streams, discovery, ctl, tracker, scanner, boot, fillpath, refprice, gateway, chain>>

\* a BUY in the current market is filled and recorded under its slug
OpenInCurrent ==
    /\ Len(portfolio.positions) < MaxHeldPositions
    /\ position_count(portfolio, current_slug(resolver.now)) = 0
    /\ \E side \in Sides :
          LET slug == current_slug(resolver.now)
              fill == [side |-> "Buy", token_id |-> token_of(slug, side), price |-> 1,
                       size |-> 1, fee |-> 0]
          IN  portfolio' = record_fill(portfolio, fill, slug, side)
    /\ UNCHANGED resolver
    /\ ResolverFrame

\* the last interval the clock is followed through
TailStart == ((MaxResolverClock - 1) \div INTERVAL) * INTERVAL

\* time never stops: past the last interval the clock is kept by its offset
\* within the interval, every later interval standing in the place of the last
resolver_clock(t) ==
    IF t >= TailStart + INTERVAL THEN TailStart + (t % INTERVAL) ELSE t

\* one tick of the resolution tracker, the clock having moved on
ResolverTick ==
    /\ \E step \in ResolverSteps, ref_price \in CachedReferences, current_price \in FeedPrices :
          /\ LET now == resolver_clock(resolver.now + step)
                 slug == current_slug(now)
                 remaining == time_remaining_in_current(now)
                 winning_side == IF current_price >= ref_price THEN "Yes" ELSE "No"
             IN  IF remaining <= 0 /\ slug \notin resolver.resolved_slugs
                 THEN IF position_count(portfolio, slug) = 0
                      THEN /\ resolver' = [resolver EXCEPT !.now = now,
                                                           !.resolved_slugs = @ \cup {slug}]
                           /\ UNCHANGED portfolio
                      ELSE IF ref_price = 0
                      THEN /\ resolver' = [resolver EXCEPT !.now = now]
                           /\ UNCHANGED portfolio
                      ELSE /\ portfolio' = record_resolution(portfolio, slug, winning_side)
                           /\ resolver' = [resolver EXCEPT !.now = now,
                                                           !.resolved_slugs = @ \cup {slug},
                                                           !.resolutions = Append(@, slug)]
                 ELSE /\ resolver' = [resolver EXCEPT !.now = now]
                      /\ UNCHANGED portfolio
    /\ ResolverFrame

NextResolver ==
    \/ OpenInCurrent
    \/ ResolverTick

SpecResolver == Init /\ [][NextResolver]_vars

\* the tracker's interval timer keeps firing
SpecResolverFair == SpecResolver /\ WF_vars(ResolverTick)

\* ------------------------------------------------------------------------
\* The loss streak: the watchdog over portfolios late in a trading day
\* ------------------------------------------------------------------------
\* consecutive_losses below, one short of and at loss_streak_threshold
StreakSamples == {0, loss_streak_threshold - 1, loss_streak_threshold}

\* the day's realized loss so far, in whole quarter-dollars: none, or one
\* (beyond max_daily_loss_pct of StartingCapital)
StreakLosses == {0, 1}

\* a portfolio after a run of sells that realized d in losses, the last c of
\* them in a row, with nothing held
AfterStreak(c, d) ==
    [Portfolio(StartingCapital) EXCEPT
        !.capital = StartingCapital - d,
        !.daily_pnl = RInt(0 - d),
        !.total_pnl = RInt(0 - d),
        !.total_trades = loss_streak_threshold,
        !.consecutive_losses = c]

InitStreak ==
    /\ \E c \in StreakSamples, d \in StreakLosses : portfolio = AfterStreak(c, d)
    /\ killed = FALSE
    /\ size_reduction_active = FALSE
    /\ size_multiplier = RInt(1)
    /\ fills = 0
    /\ eval = EvalIdle
    /\ sent = "none"
    /\ buy = BuyIdle(LiveCapital, <<>>)
    /\ live = LiveFlat
    /\ orch = OrchIdle
    /\ OthersIdle

NextStreak == RecordFill \/ WatchdogTick

SpecStreak == InitStreak /\ [][NextStreak]_vars

\* ------------------------------------------------------------------------
\* Properties
\* ------------------------------------------------------------------------
RiskErrors == {"Err_KillSwitch", "Err_Exposure", "Err_DailyLoss", "Err_Balance"}

\* C1: once the kill switch is set it stays set until reset_kill is called: a
\* step that clears it is a reset_kill step, a periodic check made while it is
\* set leaves it set, and every check_order made while it is set returns an
\* error.
C1_KillSwitchLatched ==
    [][ /\ (killed /\ ~killed' => ResetKill)
        /\ (killed => periodic_check(portfolio, killed, size_reduction_active,
                                     size_multiplier).killed)
        /\ (EvalCheck /\ killed => eval'.result \in RiskErrors) ]_vars

\* check_order ran while the switch was set, refused, and the switch is still set
C1_Witness ==
    /\ killed
    /\ eval.pc = "checked"
    /\ eval.result = "Err_KillSwitch"

\* C2: no order is submitted to the gateway while the kill switch is set,
\* whatever the interleaving of the evaluation loop with the watchdog or a
\* manual kill.
C2_NoSubmitWhileKilled == sent = "orders" => ~killed

\* C3: capital is never negative after any sequence of record_fill and
\* record_resolution calls with valid fills.
C3_CapitalNeverNegative == portfolio.capital >= 0

C5_Holds(p, market_id) ==
    \/ \E i \in 1..Len(p.positions) : p.positions[i].market_id = market_id
    \/ \E i \in 1..Len(p.straddles) : p.straddles[i].market_id = market_id

\* C5: right after record_resolution(market_id, winning_side) the portfolio
\* holds no position and no straddle of that market, whatever it held before.
C5_ResolutionPurges ==
    [][\A m \in Markets, w \in Sides :
         ResolutionOf(m, w) => ~C5_Holds(portfolio', m)]_vars

\* a position and a straddle of one market were resolved, and a position of
\* the other market is still held
C5_Witness ==
    /\ portfolio.total_trades = 2
    /\ portfolio.winning_trades = 1
    /\ Len(portfolio.positions) = 1
    /\ portfolio.straddles = <<>>
    /\ ~C5_Holds(portfolio, "m1")

\* the four conditions of C4, stated on the portfolio, the flag and the order
C4_Notional(order) == order.price * order.size

C4_AllFour(p, kill_flag, order) ==
    /\ ~kill_flag
    /\ RLe(RAdd(total_exposure(p), RInt(C4_Notional(order))),
           RMul(max_exposure_pct,
                RInt(IF p.starting_capital >= p.capital THEN p.starting_capital
                     ELSE p.capital)))
    /\ RLe(RNeg(RMul(max_daily_loss_pct, RInt(p.starting_capital))), p.daily_pnl)
    /\ C4_Notional(order) <= p.capital

\* C4: check_order returns Ok if and only if the kill switch is clear, current
\* exposure plus the order's notional is within max_exposure_pct times
\* max(starting_capital, capital), daily_pnl is not below the daily loss limit,
\* and the notional is within capital.
C4_CheckOrderOkIff ==
    [][EvalCheck =>
         (eval'.result = "Ok" <=> C4_AllFour(portfolio, killed, eval.orders[eval.idx]))]_vars

\* an order within the exposure and loss limits was refused for its balance alone
C4_Witness ==
    /\ eval.pc = "checked"
    /\ eval.result = "Err_Balance"
    /\ ~killed

\* total exposure divided by capital, where that quotient exists
C10_RatioExceeds(p) ==
    /\ p.capital # 0
    /\ RLt(max_exposure_pct, RDiv(total_exposure(p), RInt(p.capital)))

\* C10: whenever a periodic risk check runs while exposure_ratio exceeds
\* max_exposure_pct, the kill switch is set when the check returns and a
\* cancel-all is sent to the gateway.
C10_ExposureBreachKills ==
    [][WatchdogTick /\ C10_RatioExceeds(portfolio) =>
         killed' /\ sent' = "cancel_all"]_vars

\* the watchdog has just found the ratio above the limit
C10_Witness ==
    /\ sent = "cancel_all"
    /\ killed
    /\ C10_RatioExceeds(portfolio)

\* the polls seen justify a recorded buy: the last one answered MATCHED with a
\* matched size above zero, or it was the fifth and answered LIVE or DELAYED
C6_Justified(polls) ==
    /\ polls # <<>>
    /\ LET final == polls[Len(polls)]
       IN  /\ final.ok
           /\ \/ final.status = "MATCHED" /\ final.size_matched > 0
              \/ Len(polls) = 5 /\ final.status \in {"LIVE", "DELAYED"}

\* C6: try_market_buy records a position and debits capital only if a poll
\* returned MATCHED with a non-zero matched size or the order was still LIVE or
\* DELAYED at the fifth poll; in every other outcome the positions and the
\* capital are as they were and the call returns false.
C6_BuyRecordedOnlyIfConfirmed ==
    [][ /\ (buy'.capital # buy.capital \/ buy'.positions # buy.positions)
            => C6_Justified(buy'.polls)
        /\ buy'.ret = "true" => C6_Justified(buy'.polls)
        /\ (buy'.pc = "done" /\ buy.pc # "done" /\ ~C6_Justified(buy'.polls))
            => /\ buy'.ret = "false"
               /\ buy'.capital = buy.capital
               /\ buy'.positions = buy.positions ]_vars

\* a buy recorded on the fallback: still pending at the fifth poll
C6_Witness ==
    /\ buy.ret = "true"
    /\ Len(buy.polls) = 5
    /\ buy.polls[5].status = "LIVE"
    /\ buy.capital < LiveCapital
    /\ buy.positions # <<>>

C7_Rank(type) == IF type = "tp" THEN 1 ELSE IF type = "sl" THEN 2 ELSE 3

\* C7: over any sequence of ticks the types of the sell orders placed for a
\* position only move forward along tp, sl, force.
C7_NoDeEscalation ==
    \A i, j \in 1..Len(live.placed) :
        i < j => C7_Rank(live.placed[i]) <= C7_Rank(live.placed[j])

\* C8: for every call of the orchestrator's evaluate on one market, the sum of
\* price x size over the intents it returns is at most capital_for_market, the
\* available capital times the market type's allocation fraction.
C8_WithinMarketBudget ==
    orch.called => RLe(total_order_cost(orch.orders), orch.capital_for_market)

\* the budget is kept whenever the Position Manager's capital is not negative
BudgetKeptWhenSolvent ==
    (orch.called /\ RLe(RInt(0), orch.in.available_capital))
        => RLe(total_order_cost(orch.orders), orch.capital_for_market)

\* a call that spent the whole budget of the market
BudgetExhausted ==
    /\ orch.called
    /\ RLt(RInt(0), orch.capital_for_market)
    /\ total_order_cost(orch.orders) = orch.capital_for_market

\* C9: when the market's lifecycle phase is Lockout or Resolved, evaluate
\* returns zero intents for every book, regime, capital and signal input.
C9_LockoutSuppresses ==
    (orch.called /\ orch.phase \in {"Lockout", "Resolved"}) => orch.orders = <<>>

\* a call in Lockout on books with an arbitrage and a budget of ten dollars or
\* more, answered with no intent
C9_Witness ==
    /\ orch.called
    /\ orch.phase = "Lockout"
    /\ scan(orch.in.yes_book, orch.in.no_book, orch.in.vol_regime,
            arb_min_expected_profit).some
    /\ RLe(RInt(10), orch.capital_for_market)
    /\ orch.orders = <<>>

\* C11: when the daily loss limit is blown (daily_pnl below -max_daily_loss_pct
\* x starting_capital) and the watchdog observes it, the kill switch is set and
\* a cancel-all is sent to the gateway, so that trading stays halted until a
\* manual reset.
C11_DailyLossBreachKills ==
    [][WatchdogTick /\ daily_loss_breached(portfolio) =>
         killed' /\ sent' = "cancel_all"]_vars

\* C12: for each asset, any two strategy evaluations started by the evaluation
\* loop are at least 200 ms apart, under any stream of price events.
C12_EvaluationsSpaced ==
    \A a \in Assets :
        \A i \in 1..Len(throttle.started[a]) - 1 :
            throttle.started[a][i + 1] - throttle.started[a][i] >= 200

\* an update of an asset was throttled after one evaluation, and the asset was
\* evaluated again exactly 200 ms after the first time
C12_Witness ==
    \E a \in Assets :
        /\ Len(throttle.started[a]) >= 2
        /\ throttle.started[a][2] - throttle.started[a][1] = 200
        /\ throttle.last = "evaluated"
        /\ \E b \in Assets \ {a} : throttle.started[b] # <<>>

\* C13: every OrderBook snapshot a reader can obtain from the book cache,
\* after any sequence of snapshot loads and delta updates, has best_bid below
\* best_ask or at least one empty side.
C13_CacheUncrossed == bookfeed.cache.some => uncrossed(bookfeed.cache.book)

\* the exchange's own book is never crossed
ExchangeUncrossed == uncrossed(bookfeed.exchange)

\* a SELL fill that closes shares of an open position above their entry price
C14_WinningSell(f) ==
    LET i == find_position(portfolio, token_of(f.market_id, f.market_side), f.market_id)
    IN  /\ f.side = "Sell"
        /\ i # 0
        /\ RLt(RMul(portfolio.positions[i].avg_entry_price, RInt(f.size)),
               RInt(f.price * f.size - f.fee))

\* a resolution in which a position of the market is on the winning side
C14_WinningResolution(m, w) ==
    \E i \in 1..Len(portfolio.positions) :
        portfolio.positions[i].market_id = m /\ portfolio.positions[i].side = w

\* C14: after any operation that realizes a win, a closing SELL with positive
\* P&L or a resolution in which at least one of the market's positions wins,
\* consecutive_losses is 0.
C14_WinResetsStreak ==
    [][ /\ \A f \in Fills :
             RecordFillOf(f) /\ C14_WinningSell(f) => portfolio'.consecutive_losses = 0
        /\ \A m \in Markets, w \in Sides :
             ResolutionOf(m, w) /\ C14_WinningResolution(m, w)
                 => portfolio'.consecutive_losses = 0 ]_vars

\* the SELL half of the claim alone
WinningSellResetsStreak ==
    [][ \A f \in Fills :
          RecordFillOf(f) /\ C14_WinningSell(f) => portfolio'.consecutive_losses = 0 ]_vars

\* the P&L a step adds to an accumulator of the portfolio
C15_Added(field) == RSub(portfolio'[field], portfolio[field])

\* (exit price - average entry price) x size sold
C15_Gross(pos, f) ==
    RMul(RSub(RInt(f.price), pos.avg_entry_price), RInt(f.size))

\* the fees charged on the BUY fills of the only position of a portfolio that
\* has closed nothing yet: what left the capital beyond the cost basis
C15_EntryFees(p) ==
    RSub(RInt(p.starting_capital - p.capital), cost_basis(p.positions[1]))

\* C15: for every position closed through record_fill, the realized P&L added
\* to daily_pnl and total_pnl equals (exit price - average entry price) x size
\* sold, minus the fees charged on that position's fills. Stated for the
\* first position a portfolio closes, sold whole by one fill.
C15_RealizedPnlNetOfFees ==
    [][ \A f \in Fills :
          ( /\ RecordFillOf(f)
            /\ f.side = "Sell"
            /\ portfolio.total_trades = 0
            /\ portfolio.straddles = <<>>
            /\ Len(portfolio.positions) = 1
            /\ find_position(portfolio, token_of(f.market_id, f.market_side),
                             f.market_id) = 1
            /\ f.size = portfolio.positions[1].size )
          => LET net == RSub(RSub(C15_Gross(portfolio.positions[1], f), RInt(f.fee)),
                             C15_EntryFees(portfolio))
             IN  /\ C15_Added("daily_pnl") = net
                 /\ C15_Added("total_pnl") = net ]_vars

\* what record_fill does add on a SELL of an open position: the gross P&L
\* minus the fee of the SELL fill alone
SellPnlNetOfSellFee ==
    [][ \A f \in Fills :
          LET i == find_position(portfolio, token_of(f.market_id, f.market_side),
                                 f.market_id)
          IN  (RecordFillOf(f) /\ f.side = "Sell" /\ i # 0)
              => LET net == RSub(C15_Gross(portfolio.positions[i], f), RInt(f.fee))
                 IN  /\ C15_Added("daily_pnl") = net
                     /\ C15_Added("total_pnl") = net ]_vars

\* C16: after record_fill applies a SELL fill whose size equals the open
\* position's size, the Portfolio no longer contains that position: it is not
\* found any more and position_count of its market is one less.
C16_FullSellRemovesPosition ==
    [][ \A f \in Fills :
          LET token_id == token_of(f.market_id, f.market_side)
              i == find_position(portfolio, token_id, f.market_id)
          IN  ( /\ RecordFillOf(f)
                /\ f.side = "Sell"
                /\ i # 0
                /\ f.size = portfolio.positions[i].size )
              => /\ find_position(portfolio', token_id, f.market_id) = 0
                 /\ position_count(portfolio', f.market_id)
                        = position_count(portfolio, f.market_id) - 1 ]_vars

\* C17: concurrent calls of record_fill, record_resolution and
\* sync_capital_from_balance take effect one at a time: whenever no call is
\* inside, the portfolio is the result of the calls made so far run one after
\* the other in some order; and what a reader saw is a result of such a run,
\* never a partially applied mutation.
C17_Serialized ==
    /\ pm.guard = "free" => portfolio = pm.serial[Len(pm.serial)]
    /\ pm.seen.some => \E k \in 1..Len(pm.serial) : pm.seen.value = pm.serial[k]

\* all three tasks have called and returned, a BUY among the calls, and a
\* reader looked in between two of the calls
C17_Witness ==
    /\ \A t \in Writers : pm.tasks[t].pc = "done"
    /\ pm.tasks["fill_consumer"].call.fill.side = "Buy"
    /\ pm.seen.some
    /\ pm.seen.value # pm.serial[1]
    /\ pm.seen.value # pm.serial[Len(pm.serial)]
    /\ portfolio = pm.serial[Len(pm.serial)]

\* C18: on shutdown, the cancel-all request to the gateway is issued before
\* the shutdown signal is published to the background tasks.
C18_CancelBeforeSignal ==
    \A i \in 1..Len(shutdown.events) :
        shutdown.events[i] = "shutdown_signal"
            => \E j \in 1..(i - 1) : shutdown.events[j] = "cancel_all"

\* the live trader, taken alone, keeps the order
LiveTraderCancelsFirst ==
    shutdown.binary = "live_trade" => C18_CancelBeforeSignal

\* the k-th delay after a successful connection: 500 ms doubled k-1 times,
\* at most 30 s
C19_Delay(k) == IF 500 * 2^(k - 1) < 30000 THEN 500 * 2^(k - 1) ELSE 30000

C19_Backoff(s) ==
    streams[s].pc \in {"connecting", "stopped"} =>
        /\ Len(streams[s].delays) = streams[s].lapses
        /\ \A k \in 1..Len(streams[s].delays) : streams[s].delays[k] = C19_Delay(k)

\* C19: for every reconnecting stream, an attempt that follows a disconnect
\* or a failed attempt is made only after the current backoff delay has been
\* waited; the delay is 500 ms after a successful connection, doubles with
\* each consecutive failure and never exceeds 30 s.
C19_ReconnectBackoff == \A s \in Streams : C19_Backoff(s)

\* the two market-data feeds follow the policy
FeedsFollowBackoff == C19_Backoff("binance") /\ C19_Backoff("polymarket")

\* no stream ever sleeps longer than 30 s
DelaysCapped ==
    \A s \in Streams : \A k \in 1..Len(streams[s].delays) : streams[s].delays[k] <= 30000

\* more than 60 seconds have passed since the market's close time
C20_PastGrace(entry, now) == now - entry.close_time > 60

\* C20: every market in the book-feed cache is removed, together with its
\* two order books and token subscriptions, once 60 seconds have passed since
\* its close time: no discovery tick leaves such a market, book or
\* subscription behind.
C20_ExpiredSwept ==
    [][DiscoveryTick =>
         \A e \in discovery.markets : C20_PastGrace(e, discovery.now) =>
             /\ e \notin discovery'.markets
             /\ \A side \in {"Yes", "No"} :
                   /\ <<e.slug, side>> \notin discovery'.books
                   /\ <<e.slug, side>> \notin discovery'.subscribed]_vars

\* the sweep removes nothing at all: the cache only grows
CacheOnlyGrows ==
    [][/\ discovery.markets \subseteq discovery'.markets
       /\ discovery.books \subseteq discovery'.books]_vars

\* the tick that found the resting sell order MATCHED
C21_FoundMatched == CtlCheck /\ ctl'.seen = "MATCHED"

\* C21: when the exit controller finds a position's resting sell order in
\* status MATCHED, in that same tick it credits capital with sell-order price
\* x position size, records P&L = proceeds - cost basis, and removes the
\* position; this happens exactly once per position.
C21_MatchedSaleBooked ==
    [][/\ C21_FoundMatched =>
            /\ ctl'.capital = ctl.capital + ctl.pos.sell_order_price * ctl.pos.size
            /\ ctl'.total_exit_pnl = ctl.total_exit_pnl
                   + (ctl.pos.sell_order_price * ctl.pos.size - ctl.pos.cost_basis)
            /\ ctl'.exits = ctl.exits + 1
            /\ ~ctl'.held
            /\ ctl'.booked = Append(ctl.booked, ctl.pos.id)
       /\ ctl'.booked # ctl.booked =>
            /\ C21_FoundMatched
            /\ \A i \in 1..Len(ctl.booked) : ctl.booked[i] # ctl.pos.id]_vars

\* a sale booked at a price other than the take-profit price
C21_Witness ==
    /\ ctl.exits = 1
    /\ ~ctl.held
    /\ ctl.seen = "MATCHED"
    /\ ctl.pos.sell_order_type = "sl"
    /\ ctl.capital = LiveCapital - ctl.pos.cost_basis + ctl.pos.sell_order_price * ctl.pos.size

\* C22: after the gateway rejects an order, that order is never submitted
\* again automatically: no later post repeats a rejected sell of the same
\* position, type and price.
C22_RejectedNeverResubmitted ==
    \A i \in 1..Len(ctl.posts) : \A j \in (i + 1)..Len(ctl.posts) :
        ctl.posts[i].outcome = "rejected" =>
            ~(/\ ctl.posts[j].pos = ctl.posts[i].pos
              /\ ctl.posts[j].type = ctl.posts[i].type
              /\ ctl.posts[j].price = ctl.posts[i].price)

\* the controller still tracks the order the exchange matched
C28_TracksMatchedOrder ==
    /\ ctl.pos.sell_order_id
    /\ ctl.orders[ctl.pos.oid].status = "MATCHED"

\* C28: a position whose resting sell order was fully matched at the
\* exchange, also between the status check and the cancel-and-replace, is
\* eventually booked: between ticks the controller still tracks the matched
\* order, so that its next status check books the sale.
C28_MatchedSaleNotLost ==
    ctl.held /\ ctl.sold /\ ctl.pc = "idle" => C28_TracksMatchedOrder

\* the race: the status check answered LIVE, the exchange matched the order,
\* and the cancel-and-replace is about to run
MatchedBetweenCheckAndCancel == ctl.pc = "cancel" /\ ctl.seen = "LIVE" /\ ctl.sold

\* a match the controller sees at its next status check is booked
MatchSeenBeforeCancelIsBooked ==
    [][CtlCheck /\ ctl.sold /\ ctl'.pc = "idle" /\ ctl'.seen # "ERR" => ctl'.booked # ctl.booked]_vars

\* once the matched order's id is forgotten, no later step books the sale
LostSaleNeverBooked ==
    [][ctl.held /\ ctl.sold /\ ctl.pc # "cancel" /\ ~C28_TracksMatchedOrder
         => ctl'.booked = ctl.booked /\ ctl'.capital = ctl.capital]_vars

\* what C23 asks of the order the last fill belongs to
C23_Updated(before, after, fill) ==
    /\ after.filled_size = before.filled_size + fill.size
    /\ after.remaining_size = before.remaining_size - fill.size
    /\ after.status = IF after.remaining_size > 0 THEN "PartiallyFilled" ELSE "Filled"

\* C23: after on_fill processes a fill for a tracked order, the order's
\* filled size has grown by the fill size, its remaining size has shrunk by
\* the fill size, and its status is PartiallyFilled if remaining > 0 and
\* Filled if remaining = 0.
C23_FillUpdatesOrder ==
    [][TrackerOnFill =>
         C23_Updated(tracker.active_orders[tracker'.last.order_id],
                     tracker'.active_orders[tracker'.last.order_id],
                     tracker'.last)]_vars

\* for BUY orders, tracked in shares, the update is as stated
BuyFillUpdatesOrder ==
    [][TrackerOnFill /\ tracker.exchange[tracker'.last.order_id].side = "Buy" =>
         C23_Updated(tracker.active_orders[tracker'.last.order_id],
                     tracker'.active_orders[tracker'.last.order_id],
                     tracker'.last)]_vars

\* an order whose tracked status is final
C24_Completed(t, oid) == t.active_orders[oid].status \in {"Filled", "Cancelled", "Rejected"}

\* C24: the data the fill tracker retains for completed orders, order
\* records and stored fills, is removed by the periodic sweep: after a tick
\* of the resolution tracker in a later interval, nothing of an order that
\* was completed before remains.
C24_CompletedSwept ==
    [][ResolutionTick /\ tracker'.now \div INTERVAL > tracker.now \div INTERVAL =>
         \A oid \in DOMAIN tracker.active_orders :
             C24_Completed(tracker, oid) =>
                 /\ oid \notin DOMAIN tracker'.active_orders
                 /\ oid \notin DOMAIN tracker'.fills]_vars

\* the sweep itself leaves every stored fill in place
CleanupKeepsFills == cleanup_completed(tracker).fills = tracker.fills

\* no tick ever reads a remaining time of zero or less
RemainingAlwaysPositive ==
    \A now \in 0..MaxTrackerClock : time_remaining_in_current(now) > 0

\* nothing is ever removed from the tracker
TrackerOnlyGrows ==
    [][/\ DOMAIN tracker.active_orders \subseteq DOMAIN tracker'.active_orders
       /\ DOMAIN tracker.fills \subseteq DOMAIN tracker'.fills]_vars

\* positive on-chain balances to reconcile with, in quarter-dollars
C25_Balances == 1..(StartingCapital + 2)

\* the on-chain collateral is more than 1 cent away from capital + exposure
C25_Drifted(p, on_chain) ==
    LET diff == RSub(RInt(on_chain), RAdd(RInt(p.capital), total_exposure(p)))
    IN  RLt(Cent, IF diff[1] < 0 THEN RNeg(diff) ELSE diff)

\* C25: sync_capital_from_balance(on_chain) overwrites capital with the
\* on-chain balance exactly when the on-chain collateral differs from
\* (capital + total exposure) by more than 1 cent, and otherwise leaves the
\* Portfolio unchanged.
C25_SyncExactlyOnDrift ==
    \A on_chain \in C25_Balances :
        sync_capital_from_balance(portfolio, on_chain) =
            IF C25_Drifted(portfolio, on_chain)
            THEN [portfolio EXCEPT !.capital = on_chain]
            ELSE portfolio

\* with nothing held, the claim and the code agree
SyncOnDriftWhenFlat ==
    total_exposure(portfolio) = RInt(0) =>
        \A on_chain \in C25_Balances :
            sync_capital_from_balance(portfolio, on_chain) =
                IF C25_Drifted(portfolio, on_chain)
                THEN [portfolio EXCEPT !.capital = on_chain]
                ELSE portfolio

\* YES_ask + NO_ask of the call, both books having asks
C26_Combined ==
    RAdd(Cents(best_ask(scanner.yes_book).price), Cents(best_ask(scanner.no_book).price))

\* expected profit: the smaller depth within 2 cents of the best ask, times
\* the regime's fill rate, times the edge
C26_ExpectedProfit ==
    LET yes_depth == ask_depth_within(scanner.yes_book, 2)
        no_depth == ask_depth_within(scanner.no_book, 2)
        executable == IF yes_depth <= no_depth THEN yes_depth ELSE no_depth
    IN  RMul(RMul(RInt(executable), fill_probability_penalty(scanner.vol_regime)),
             RSub(RInt(1), C26_Combined))

C26_ShouldEmit ==
    IF has_ask(scanner.yes_book) /\ has_ask(scanner.no_book)
    THEN /\ RLe(C26_Combined, RSub(RInt(1), arb_min_edge(scanner.vol_regime)))
         /\ RLe(scanner.min_profit, C26_ExpectedProfit)
    ELSE FALSE

C26_RefusedOnProfit ==
    /\ scanner.called
    /\ ~scanner.signal.some
    /\ has_ask(scanner.yes_book) /\ has_ask(scanner.no_book)
    /\ RLe(C26_Combined, RSub(RInt(1), arb_min_edge(scanner.vol_regime)))

\* ------------------------------------------------------------------------
\* C27: a process whose configuration is invalid (the capital allocation does
\* not sum to 1.0 within 1%, max_exposure_pct is outside (0, 1], or there is no
\* signer key and DRY_RUN is not set) starts no feed, submits no order and
\* ends with exit code 1.
\* ------------------------------------------------------------------------
NoKeyOutsideDryRun ==
    boot.config.private_key = "" /\ boot.env.DRY_RUN \notin {"true", "1"}

C27_InvalidConfiguration ==
    /\ boot.pc # "start"
    /\ \/ validate(boot.config, boot.env) # "ok"
       \/ NoKeyOutsideDryRun

\* C27: an invalid configuration leaves the feeds unstarted and the orders
\* unsent, and the process ends with exit code 1
C27_InvalidConfigAborts ==
    C27_InvalidConfiguration =>
        /\ boot.feeds = {}
        /\ boot.orders = 0
        /\ boot.pc = "exited" => boot.exit_code = <<1>>

\* validate() accepts every configuration load_or_default() builds: an absent
\* key counts as dry-run, the other two fields are the defaults
ValidateAlwaysPasses ==
    boot.validation \in {"none", "ok"}

\* the live trader does stop with code 1 before anything is started
LiveTraderRefusesWithoutKey ==
    boot.binary = "live_trade" /\ C27_InvalidConfiguration =>
        /\ boot.feeds = {}
        /\ boot.orders = 0
        /\ boot.pc = "exited" => boot.exit_code = <<1>>

\* main.rs trading with a random signer after an invalid configuration
MainRunsWithoutKey ==
    /\ boot.binary = "main"
    /\ NoKeyOutsideDryRun
    /\ boot.signer = "random"
    /\ boot.feeds = main_feeds
    /\ boot.orders > 0

\* ------------------------------------------------------------------------
\* C29: every execution the gateway reports changes the Portfolio exactly
\* once: none is lost between the user stream and record_fill, none is
\* recorded both from the submit result and from the stream.
\* ------------------------------------------------------------------------
times_recorded(oid) ==
    Cardinality({i \in 1..Len(fillpath.recorded) : fillpath.recorded[i].order_id = oid})

\* the consumer handed the order's fill to FillTracker::on_fill
was_tracked(oid) == \E i \in 1..Len(fillpath.tracked) : fillpath.tracked[i] = oid

\* nothing is on its way: the stream is read, the channel is drained
FillPathQuiet ==
    /\ fillpath.wire = <<>>
    /\ fillpath.channel.queue = <<>>
    /\ fillpath.channel.missed = 0

\* C29: an execution is never recorded twice, and once nothing is on its way
\* every execution has been recorded once and paid for once
C29_ExactlyOnce ==
    /\ \A oid \in fillpath.executed : times_recorded(oid) <= 1
    /\ FillPathQuiet =>
          /\ \A oid \in fillpath.executed : times_recorded(oid) = 1
          /\ portfolio.capital = StartingCapital - Cardinality(fillpath.executed)

\* the half of it that holds: no execution is recorded twice, and none from
\* the submit result, whose filled_size is zero for every order type
NeverRecordedTwice ==
    /\ \A oid \in fillpath.executed : times_recorded(oid) <= 1
    /\ \A i \in 1..Len(fillpath.recorded) : fillpath.recorded[i].via = "stream"

\* the Portfolio has paid for exactly the recorded executions
PortfolioFollowsRecorded ==
    portfolio.capital = StartingCapital - Len(fillpath.recorded)

\* an execution with its market id, lost to the lag of the channel
FillLostToLag ==
    /\ FillPathQuiet
    /\ fillpath.lagged > 0
    /\ \E oid \in fillpath.executed : times_recorded(oid) = 0 /\ ~was_tracked(oid)

\* an execution reported without a market id: tracked, never recorded
FillLostWithoutMarket ==
    /\ FillPathQuiet
    /\ fillpath.lagged = 0
    /\ \E oid \in fillpath.executed : times_recorded(oid) = 0 /\ was_tracked(oid)

\* ------------------------------------------------------------------------
\* C30: a market's reference price is set once, from the first
\* reference-feed price seen for that market, and every later evaluation and
\* the resolution of that market use that same value.
\* ------------------------------------------------------------------------
C30_ReferenceSetOnce ==
    refprice.first_price # 0 =>
        /\ refprice.cache.market.reference_price = refprice.first_price
        /\ \A i \in 1..Len(refprice.evaluations) :
              refprice.evaluations[i].reference_price = refprice.first_price
        /\ \A i \in 1..Len(refprice.resolutions) :
              refprice.resolutions[i].ref_price = refprice.first_price

\* what holds instead: the cached market is never given a reference price,
\* and every evaluation runs on the price of its own tick
CachedReferenceNeverSet ==
    refprice.cache.market.reference_price = 0

EvaluationUsesItsOwnPrice ==
    \A i \in 1..Len(refprice.evaluations) :
        refprice.evaluations[i].reference_price = refprice.evaluations[i].binance_price

\* no resolution is ever decided
NeverResolved ==
    refprice.resolutions = <<>>

\* two evaluations of the market on different reference prices
ReferenceMoved ==
    \E i, j \in 1..Len(refprice.evaluations) :
        refprice.evaluations[i].reference_price # refprice.evaluations[j].reference_price

\* ------------------------------------------------------------------------
\* C31: filling orders that each passed check_order never by itself trips
\* the watchdog: from a state in which periodic_check would not kill, after
\* recording the fill of an approved BUY order at its limit price
\* periodic_check still does not set the kill switch.
\* ------------------------------------------------------------------------
would_kill(p) ==
    periodic_check(p, killed, size_reduction_active, size_multiplier).action = "KillSwitch"

C31_ApprovedFillNeverKills ==
    [][ApprovedFill /\ ~would_kill(portfolio) => ~would_kill(portfolio')]_vars

\* the watchdog has killed after nothing but fills of approved orders
KilledByApprovedFill ==
    /\ killed
    /\ gateway.filled # <<>>
    /\ sent = "cancel_all"

\* measured against the starting capital, as check_order measures it, the
\* exposure of approved orders stays within the limit
ApprovedWithinStartingLimit ==
    [][ApprovedFill /\ Len(gateway.filled) = 0 =>
         RLe(exposure_over_starting_capital(portfolio'), max_exposure_pct)]_vars

\* ------------------------------------------------------------------------
\* C32: at the end of every tick, each open position in the current market
\* has exactly one live GTC sell order at the exchange (tp, sl or force),
\* never none and never two at once.
\* ------------------------------------------------------------------------
live_sells(pos_id) ==
    {k \in 1..Len(ctl.orders) : ctl.orders[k].pos = pos_id /\ ctl.orders[k].status = "LIVE"}

\* the tick is over and the position is still open and unsold
EndOfTickOpen ==
    /\ ctl.pc = "idle"
    /\ ctl.held
    /\ ~ctl.sold

\* C32: an open position has exactly one live sell order when the tick ends
C32_OneLiveSell ==
    EndOfTickOpen => Cardinality(live_sells(ctl.pos.id)) = 1

\* the half that holds: never two live sell orders for a position, and the
\* live one is the one the position tracks
AtMostOneLiveSell ==
    /\ Cardinality(live_sells(ctl.pos.id)) <= 1
    /\ ctl.held /\ ctl.pos.sell_order_id /\ live_sells(ctl.pos.id) # {}
          => live_sells(ctl.pos.id) = {ctl.pos.oid}

\* a tick ended on an open position whose replacement sell was refused after
\* the order it replaced had been cancelled
ReplacementRefused ==
    /\ EndOfTickOpen
    /\ live_sells(ctl.pos.id) = {}
    /\ Len(ctl.posts) >= 2
    /\ ctl.posts[1].outcome = "accepted"

\* ------------------------------------------------------------------------
\* C33: a balance sync never overwrites an in-flight capital deduction: when
\* sync_capital_from_balance and the record_fill of a just-executed BUY are
\* applied in either order, the resulting capital reflects that BUY's cost
\* exactly once.
\* ------------------------------------------------------------------------
\* every executed BUY has been recorded and no fetched balance is waiting
ChainSettled ==
    /\ chain.pending = <<>>
    /\ ~chain.fetched.some

\* C33: once both have been applied, capital is the starting capital less the
\* cost of each executed BUY, once: the collateral left at the exchange
C33_CostCountedOnce ==
    ChainSettled => portfolio.capital = chain.on_chain

\* without a sync in between, record_fill alone counts every cost once
FillsAloneCountOnce ==
    ChainSettled /\ (\A i \in 1..Len(chain.history) : chain.history[i] = "fill")
        => portfolio.capital = chain.on_chain

\* the sync came first: the BUY is deducted twice
CostCountedTwice ==
    /\ ChainSettled
    /\ chain.executed = 1
    /\ chain.history = <<"sync", "fill">>
    /\ portfolio.capital < chain.on_chain

\* the fill came first and a balance fetched before the BUY is applied after
\* it: the deduction is overwritten
DeductionOverwritten ==
    /\ ChainSettled
    /\ chain.executed = 1
    /\ chain.history = <<"fill", "sync">>
    /\ portfolio.capital > chain.on_chain

\* ------------------------------------------------------------------------
\* C34: if two paired BUY legs both pass check_order before either is
\* filled, then recording the first leg's fill (which reduces capital) does
\* not make check_order reject the second leg on the exposure limit.
\* ------------------------------------------------------------------------
\* the two oldest resting orders are the legs of one approved pair
PairResting ==
    /\ Len(gateway.resting) >= 2
    /\ gateway.resting[1].batch = gateway.resting[2].batch

\* the limit check_order applies on portfolio p
exposure_limit(p) ==
    RMul(RInt(IF p.starting_capital > p.capital THEN p.starting_capital ELSE p.capital),
         max_exposure_pct)

SecondLegOverLimit ==
    /\ gateway.filled # <<>>
    /\ gateway.resting # <<>>
    /\ gateway.filled[Len(gateway.filled)].batch = Head(gateway.resting).batch
    /\ ~killed
    /\ check_order(portfolio, killed, Head(gateway.resting).order) = "Err_Exposure"

\* ------------------------------------------------------------------------
\* C35: for every market in which the Portfolio holds a position when the
\* market closes, the resolution tracker eventually calls record_resolution
\* for that market, so no position of a closed market stays in the
\* Portfolio forever.
\* ------------------------------------------------------------------------
ResolverSlugs == {k * INTERVAL : k \in 0..(MaxResolverClock \div INTERVAL)}

held_in(slug) == position_count(portfolio, slug) > 0

closed_at(slug, now) == now >= slug + INTERVAL

C35_EventuallyResolved ==
    \A slug \in ResolverSlugs :
        (held_in(slug) /\ closed_at(slug, resolver.now)) ~> ~held_in(slug)

\* the tracker only ever looks at the market of the current interval, which
\* has time left: it records no resolution at all
NoResolutionRecorded ==
    resolver.resolutions = <<>> /\ resolver.resolved_slugs = {}

CurrentMarketNeverClosed ==
    /\ ~closed_at(current_slug(resolver.now), resolver.now)
    /\ time_remaining_in_current(resolver.now) > 0

\* a position still held two intervals after its market closed
HeldLongAfterClose ==
    \E slug \in ResolverSlugs :
        /\ held_in(slug)
        /\ closed_at(slug + INTERVAL, resolver.now)

\* ------------------------------------------------------------------------
\* C36: once the shutdown-time cancel-all has been issued, no task submits a
\* further order to the gateway, so no order placed by the engine is left
\* resting after the process exits.
\* ------------------------------------------------------------------------
cancel_all_issued ==
    \E i \in 1..Len(shutdown.events) : shutdown.events[i] = "cancel_all"

C36_NoSubmitAfterCancelAll ==
    [][PlaceResting => ~cancel_all_issued]_vars

\* the live trader's single loop has stopped trading before it cancels
LiveTraderQuietAfterCancel ==
    [][PlaceResting /\ cancel_all_issued => shutdown.binary = "main"]_vars

\* in the engine only a task that has not yet seen the signal can still submit
OnlyRunningEvaluationSubmits ==
    [][PlaceResting /\ cancel_all_issued => "evaluation" \in shutdown.tasks]_vars

\* the engine has exited and an order rests at the gateway
RestingAfterExit ==
    /\ shutdown.binary = "main"
    /\ shutdown.pc = "exited"
    /\ shutdown.resting > 0

\* ------------------------------------------------------------------------
\* C37: whenever consecutive_losses is at or above loss_streak_threshold the
\* periodic check leaves the published size multiplier at
\* loss_streak_size_mult, and once the streak has ended (consecutive_losses
\* back below the threshold) the periodic check leaves it at 1.0.
\* ------------------------------------------------------------------------
in_loss_streak(p) == p.consecutive_losses >= loss_streak_threshold

C37_MultiplierFollowsStreak ==
    [][WatchdogTick =>
        size_multiplier' = IF in_loss_streak(portfolio) THEN loss_streak_size_mult
                           ELSE RInt(1)]_vars

\* a check that gets past the exposure and daily-loss tests does publish it
MultiplierFollowsStreakPastEarlierTests ==
    [][WatchdogTick
        /\ ~RLt(max_exposure_pct, exposure_ratio(portfolio))
        /\ ~daily_loss_breached(portfolio)
        => size_multiplier' = IF in_loss_streak(portfolio) THEN loss_streak_size_mult
                              ELSE RInt(1)]_vars

\* a check that returns KillSwitch or Pause leaves the multiplier as it found it
EarlierTestsLeaveMultiplier ==
    [][WatchdogTick
        /\ (RLt(max_exposure_pct, exposure_ratio(portfolio)) \/ daily_loss_breached(portfolio))
        => /\ size_multiplier' = size_multiplier
           /\ size_reduction_active' = size_reduction_active]_vars

\* the streak has ended and the multiplier is still the reduced one
StreakEndedStillReduced ==
    /\ ~in_loss_streak(portfolio)
    /\ size_multiplier = loss_streak_size_mult

\* the streak at the threshold and the reduced multiplier published
StreakPublished ==
    /\ in_loss_streak(portfolio)
    /\ size_multiplier = loss_streak_size_mult


\* ------------------------------------------------------------------------
\* C38: under any sequence of BUY and SELL fills applied through record_fill
\* no Position's size is negative and total exposure is not negative.
\* ------------------------------------------------------------------------
C38_SizesNeverNegative ==
    /\ \A i \in 1..Len(portfolio.positions) : portfolio.positions[i].size >= 0
    /\ ~RLt(total_exposure(portfolio), RInt(0))

\* the sell branch takes fill.size off whatever is held
SellTakesFillSize ==
    [][\A f \in Fills :
        RecordFillOf(f) /\ f.side = "Sell"
        => \A i \in 1..Len(portfolio.positions) :
            LET pos == portfolio.positions[i]
            IN  pos.token_id = token_of(f.market_id, f.market_side) /\ pos.market_id = f.market_id
                => portfolio'.positions[i].size = pos.size - f.size]_vars

\* a sell with no position in the token changes nothing in the portfolio
SellWithoutPositionIgnored ==
    [][\A f \in Fills :
        RecordFillOf(f) /\ f.side = "Sell"
            /\ (\A i \in 1..Len(portfolio.positions) :
                    portfolio.positions[i].token_id # token_of(f.market_id, f.market_side))
        => portfolio' = portfolio]_vars

\* a position sold beyond what was held
SoldShort ==
    \E i \in 1..Len(portfolio.positions) :
        /\ portfolio.positions[i].size < 0
        /\ RLt(total_exposure(portfolio), RInt(0))


\* ------------------------------------------------------------------------
\* C39: whenever the Portfolio has positive total exposure and capital at or
\* below zero, the periodic risk check sets the kill switch.
\* ------------------------------------------------------------------------
exposed_without_capital(p) ==
    /\ RLt(RInt(0), total_exposure(p))
    /\ p.capital <= 0

C39_KillWithoutCapital ==
    [][WatchdogTick /\ exposed_without_capital(portfolio) => killed']_vars

\* with no capital left the ratio is zero or negative, and the exposure test
\* of the periodic check never fires: the kill switch stays as it was
NoCapitalNeverKills ==
    [][WatchdogTick /\ exposed_without_capital(portfolio) => killed' = killed]_vars

\* positions held, the capital spent to the last cent or beyond, no kill
ExposedWithoutCapitalRunning ==
    /\ exposed_without_capital(portfolio)
    /\ ~killed
    /\ periodic_check(portfolio, killed, size_reduction_active, size_multiplier).action
           # "KillSwitch"


\* ------------------------------------------------------------------------
\* C40: for every market in the cache, a next-interval market discovered
\* before its interval begins included, open_time is the interval start
\* encoded in its slug and close_time is open_time plus the interval length.
\* ------------------------------------------------------------------------
C40_TimesFromSlug ==
    \A e \in discovery.markets :
        /\ e.open_time = e.slug
        /\ e.close_time = e.open_time + INTERVAL

\* close_time is always one interval after open_time
CloseOneIntervalAfterOpen ==
    \A e \in discovery.markets : e.close_time = e.open_time + INTERVAL

\* open_time is the start of the interval the market was discovered in: that
\* of the slug, or the one before it
OpenTimeFromDiscoveryClock ==
    \A e \in discovery.markets : e.open_time \in {e.slug, e.slug - INTERVAL}

\* a market inserted by this tick carries the interval of the clock
InsertedWithClockInterval ==
    [][DiscoveryTick =>
        \A e \in discovery'.markets \ discovery.markets :
            e.open_time = current_slug(discovery.now)]_vars

\* a next-interval market in the cache with the times of the interval before
NextMarketWithEarlierTimes ==
    \E e \in discovery.markets :
        /\ e.slug = current_slug(discovery.now) + INTERVAL
        /\ e.open_time = e.slug - INTERVAL
        /\ e.close_time = e.slug


====
